---------------------------- MODULE Spec2Model ----------------------------
(***************************************************************************)
(* Model of the retroflow real-time session engine: the socket command     *)
(* handlers (socketHandler.ts) and the REST routes for sessions and        *)
(* participants.  Every handler is an async function; each `await` of a    *)
(* store operation is one atomic step, and handlers of different commands  *)
(* interleave between their steps.                                         *)
(***************************************************************************)
EXTENDS Integers, Sequences, FiniteSets, TLC

(***************************************************************************)
(* Bounds of the model.                                                    *)
(***************************************************************************)
MaxHandlers == 2      \* handlers of one kind that may be in flight together
MaxCmds == 2          \* cast_vote commands started in one behaviour
MaxGroups == 3        \* group ids the store can hand out
MaxConnCmds == 3      \* connection commands started in one behaviour
MaxConnections == 3   \* connection ids the store can hand out
MaxPhaseCmds == 3     \* presence and phase commands started in one behaviour
MaxTicks == 1         \* clock ticks in one behaviour
MaxPartCmds == 2      \* REST requests started in one behaviour
MaxNewParticipants == 2   \* participant ids the store can hand out
MaxRoomCmds == 3      \* room commands started in one behaviour
MaxNewResponses == 2  \* response ids the store can hand out
TickSeconds == 30     \* seconds one clock tick advances

(***************************************************************************)
(* Program constants.                                                      *)
(***************************************************************************)
VoteQuota == 4        \* "> 4" in the quota check of cast_vote
MaxParticipants == 15 \* "participants.length >= 15" of POST /join
MaxVoteCount == 4     \* voteSchema: voteCount max(4)

Null == "null"

\* a nullable Date: no element for null, else the time
NoTime == <<>>
At(t) == <<t>>

SessionIds == {"s1", "s2"}
ParticipantIds == {"p1", "p2", "p3"}
ResponseIds == {"r1", "r2", "r3", "r4"}
ConnIds == {"c1", "c2"}
GroupIdSeq == <<"g1", "g2", "g3", "g4">>
ConnectionIdSeq == <<"k1", "k2", "k3", "k4">>
NewParticipantIdSeq == <<"n1", "n2", "n3">>
NewSessionId == "s3"
NewResponseIdSeq == <<"r5", "r6", "r7">>
Handlers == 1..MaxHandlers

VARIABLES
  sessions,      \* table Session:     id -> [currentPhase, timerDuration, timerEndTime, hostId]
  participants,  \* table Participant: id -> [sessionId, displayName, isHost, socketId]
  responses,     \* table Response:    id -> [sessionId, participantId, groupId, content]
  groups,        \* table Group:       id -> [sessionId, voteCount]
  connections,   \* table Connection:  id -> [sessionId, fromResponseId, toResponseId]
  votes,         \* table Vote:        <<participantId, groupId>> -> [sessionId, voteCount]
  nextGroup,     \* index in GroupIdSeq of the next group id the store generates
  nextConn,      \* index in ConnectionIdSeq of the next connection id
  nextPart,      \* index in NewParticipantIdSeq of the next participant id
  nextResp,      \* index in NewResponseIdSeq of the next response id
  rooms,         \* socket.io rooms: the pairs <<socket, session>> of socket.join
  live,          \* the connected sockets
  redis,         \* the keys of the transient store, key -> value
  now,           \* the clock, in seconds
  hs,            \* the handlers in flight: slot -> frame (pc and locals)
  out,           \* the notifications emitted by the last step, in order
  cmds           \* commands started so far

dbVars == <<sessions, participants, responses, groups, connections, votes, nextGroup>>
idVars == <<nextConn, nextPart, nextResp>>
ioVars == <<rooms, live, redis, now>>
vars == <<sessions, participants, responses, groups, connections, votes, nextGroup,
          nextConn, nextPart, nextResp, rooms, live, redis, now, hs, out, cmds>>

(***************************************************************************)
(* Helpers over the store.                                                 *)
(***************************************************************************)
\* a delete that takes every row
RemoveEvery(f, k) == [x \in {} |-> f[x]]

\* a delete by key
Remove(f, k) == [x \in DOMAIN f \ {k} |-> f[x]]

RECURSIVE SumVotes(_, _)
SumVotes(vs, keys) ==
  IF keys = {} THEN 0
  ELSE LET k == CHOOSE x \in keys : TRUE
       IN vs[k].voteCount + SumVotes(vs, keys \ {k})

\* prisma.vote.aggregate({ where: { sessionId, participantId }, _sum })
SumBySessionParticipant(vs, s, p) ==
  SumVotes(vs, {k \in DOMAIN vs : k[1] = p /\ vs[k].sessionId = s})

\* prisma.vote.aggregate({ where: { groupId }, _sum })
SumByGroup(vs, g) == SumVotes(vs, {k \in DOMAIN vs : k[2] = g})

\* all rows of a participant, whatever session the row records
SumByParticipant(vs, p) == SumVotes(vs, {k \in DOMAIN vs : k[1] = p})

(***************************************************************************)
(* Notifications.  scope "socket": socket.emit; "room": io.to(room).emit;  *)
(* "others": socket.to(room).emit (the room without the sender).           *)
(***************************************************************************)
Msg(ev, scope, to, from, id, n, data) ==
  [ev |-> ev, scope |-> scope, to |-> to, from |-> from, id |-> id, n |-> n,
   data |-> data]

ErrorTo(c, text) == Msg("error", "socket", c, c, text, 0, <<>>)

\* the keys of the transient store
PresenceKey(p) == <<"participant", p>>
TypingKey(s, p) == <<"typing", s, p>>

(***************************************************************************)
(* cast_vote.                                                              *)
(* groupId of the payload is a string: a group id, "individual-<id>" or    *)
(* "connected-<id>--<id>...".  It is modelled by its prefix and the parts  *)
(* that split('--') yields.                                                *)
(***************************************************************************)
PlainTarget(g) == [prefix |-> "", parts |-> <<g>>]
IndividualTarget(r) == [prefix |-> "individual-", parts |-> <<r>>]
ConnectedTarget(rs) == [prefix |-> "connected-", parts |-> rs]

SeqRange(sq) == {sq[i] : i \in 1..Len(sq)}

\* the strings matching /^[0-9a-f]{8}-...-[0-9a-f]{12}$/i: every id the store generates
IsUuid(x) ==
  x \in ResponseIds \cup ParticipantIds \cup SessionIds \cup SeqRange(GroupIdSeq)
        \cup SeqRange(ConnectionIdSeq) \cup SeqRange(NewParticipantIdSeq)
        \cup SeqRange(NewResponseIdSeq) \cup {NewSessionId}

Idle == [pc |-> "idle"]

VoteFrame(c, s, p, t, n) ==
  [pc |-> "start", socket |-> c, sessionId |-> s, participantId |-> p,
   groupId |-> t, voteCount |-> n, actualGroupId |-> Null, found |-> {},
   newGroup |-> Null, currentTotal |-> 0, totalGroupVotes |-> 0,
   used |-> <<>>]

\* the lowest free handler slot takes the next command
FreeSlot(h) == hs[h].pc = "idle" /\ \A k \in Handlers : k < h => hs[k].pc # "idle"

\* an error that is broadcast to the room of session s1
FailToRoom(h, c, text) ==
  /\ hs' = [hs EXCEPT ![h] = Idle]
  /\ out' = <<Msg("error", "room", "s1", c, text, 0, <<>>)>>

\* socket.emit('error', { message }) and the end of the handler
Fail(h, c, text) ==
  /\ hs' = [hs EXCEPT ![h] = Idle]
  /\ out' = <<ErrorTo(c, text)>>

\* vote.aggregate by (sessionId, participantId), lines 531-536
AggregateTotal(fr) ==
  [fr EXCEPT !.pc = "getExisting",
             !.currentTotal = SumBySessionParticipant(votes, fr.sessionId, fr.participantId)]

\* lines 379-416, 472-488, 531-536: parse, then the first store read of the branch
CastVote(h, c, s, p, t, n) ==
  /\ cmds < MaxCmds
  /\ FreeSlot(h)
  /\ cmds' = cmds + 1
  /\ UNCHANGED <<dbVars, idVars, ioVars>>
  /\ LET fr == VoteFrame(c, s, p, t, n) IN
     IF n < 0 \/ n > MaxVoteCount
     THEN Fail(h, c, "Failed to cast vote")
     ELSE IF t.prefix = "connected-"
     THEN IF \E i \in 1..Len(t.parts) : ~IsUuid(t.parts[i])
          THEN Fail(h, c, "Invalid connected group format")
          ELSE LET existingGroupedResponses ==
                     {r \in SeqRange(t.parts) \cap DOMAIN responses :
                        responses[r].sessionId = s /\ responses[r].groupId # Null}
               IN /\ out' = <<>>
                  /\ IF existingGroupedResponses # {}
                     THEN \E r \in existingGroupedResponses :
                            hs' = [hs EXCEPT ![h] =
                              [fr EXCEPT !.pc = "aggTotal",
                                         !.actualGroupId = responses[r].groupId]]
                     ELSE hs' = [hs EXCEPT ![h] = [fr EXCEPT !.pc = "findUngrouped"]]
     ELSE IF t.prefix = "individual-"
     THEN LET responseId == t.parts[1]
              existingGroup ==
                {g \in DOMAIN groups :
                   /\ groups[g].sessionId = s
                   /\ responseId \in DOMAIN responses
                   /\ responses[responseId].groupId = g}
          IN /\ out' = <<>>
             /\ IF existingGroup # {}
                THEN \E g \in existingGroup :
                       hs' = [hs EXCEPT ![h] =
                         [fr EXCEPT !.pc = "aggTotal", !.actualGroupId = g]]
                ELSE hs' = [hs EXCEPT ![h] = [fr EXCEPT !.pc = "findResponse"]]
     ELSE /\ out' = <<>>
          /\ hs' = [hs EXCEPT ![h] =
               AggregateTotal([fr EXCEPT !.actualGroupId = t.parts[1]])]

\* lines 418-432: response.findMany of the ungrouped responses of the chain
FindUngrouped(h) ==
  /\ hs[h].pc = "findUngrouped"
  /\ UNCHANGED <<dbVars, idVars, ioVars, cmds>>
  /\ LET fr == hs[h]
         found == {r \in SeqRange(fr.groupId.parts) \cap DOMAIN responses :
                     responses[r].sessionId = fr.sessionId /\ responses[r].groupId = Null}
     IN IF found = {}
        THEN Fail(h, fr.socket, "Connected responses not found or already grouped")
        ELSE /\ hs' = [hs EXCEPT ![h] = [fr EXCEPT !.pc = "createGroup", !.found = found]]
             /\ out' = <<>>

\* lines 489-498: response.findUnique of the individual response
FindResponse(h) ==
  /\ hs[h].pc = "findResponse"
  /\ UNCHANGED <<dbVars, idVars, ioVars, cmds>>
  /\ LET fr == hs[h]
         responseId == fr.groupId.parts[1]
     IN IF responseId \notin DOMAIN responses
        THEN Fail(h, fr.socket, "Response not found")
        ELSE /\ hs' = [hs EXCEPT ![h] = [fr EXCEPT !.pc = "createGroup", !.found = {responseId}]]
             /\ out' = <<>>

\* lines 444-452, 501-511: group.create
CreateGroup(h) ==
  /\ hs[h].pc = "createGroup"
  /\ nextGroup <= MaxGroups
  /\ UNCHANGED <<sessions, participants, responses, connections, votes, idVars, ioVars, cmds>>
  /\ LET fr == hs[h]
         id == GroupIdSeq[nextGroup]
     IN IF fr.sessionId \notin DOMAIN sessions
        THEN /\ Fail(h, fr.socket, "Failed to cast vote")
             /\ UNCHANGED <<groups, nextGroup>>
        ELSE /\ groups' = (id :> [sessionId |-> fr.sessionId, voteCount |-> 0]) @@ groups
             /\ nextGroup' = nextGroup + 1
             /\ hs' = [hs EXCEPT ![h] = [fr EXCEPT !.pc = "assign", !.newGroup = id]]
             /\ out' = <<>>

\* response.updateMany({ where: { id: { in: responseIds } } }), lines 457-460
AssignMany(rs, ids, g) ==
  [r \in DOMAIN rs |-> IF r \in ids THEN [rs[r] EXCEPT !.groupId = g] ELSE rs[r]]

\* lines 456-468, 513-525: assign the responses, then connected_group_created
Assign(h) ==
  /\ hs[h].pc = "assign"
  /\ UNCHANGED <<sessions, participants, groups, connections, votes, nextGroup, idVars, ioVars, cmds>>
  /\ LET fr == hs[h]
         ids == SeqRange(fr.groupId.parts)
     IN IF fr.groupId.prefix = "individual-" /\ fr.groupId.parts[1] \notin DOMAIN responses
        THEN /\ Fail(h, fr.socket, "Failed to cast vote")
             /\ UNCHANGED responses
        ELSE /\ responses' = AssignMany(responses, ids, fr.newGroup)
             /\ hs' = [hs EXCEPT ![h] =
                  [fr EXCEPT !.pc = "aggTotal", !.actualGroupId = fr.newGroup]]
             /\ out' = <<Msg("connected_group_created", "room", fr.sessionId, fr.socket,
                             fr.newGroup, 0, fr.groupId.parts)>>

\* lines 531-536
AggTotal(h) ==
  /\ hs[h].pc = "aggTotal"
  /\ UNCHANGED <<dbVars, idVars, ioVars, cmds>>
  /\ hs' = [hs EXCEPT ![h] = AggregateTotal(hs[h])]
  /\ out' = <<>>

\* getExistingVoteCount, lines 599-604
getExistingVoteCount(vs, participantId, groupId) ==
  IF <<participantId, groupId>> \in DOMAIN vs
  THEN vs[<<participantId, groupId>>].voteCount
  ELSE 0

\* the quota check, line 537
OverQuota(currentTotal, existing, voteCount) ==
  currentTotal - existing + voteCount > VoteQuota

\* lines 537-540
GetExisting(h) ==
  /\ hs[h].pc = "getExisting"
  /\ UNCHANGED <<dbVars, idVars, ioVars, cmds>>
  /\ LET fr == hs[h]
         existing == getExistingVoteCount(votes, fr.participantId, fr.actualGroupId)
     IN IF OverQuota(fr.currentTotal, existing, fr.voteCount)
        THEN Fail(h, fr.socket, "Insufficient votes remaining")
        ELSE /\ hs' = [hs EXCEPT ![h] = [fr EXCEPT !.pc = "write"]]
             /\ out' = <<>>

\* vote.deleteMany / vote.upsert, lines 542-554
WriteVote(vs, s, p, g, n) ==
  IF n = 0 THEN Remove(vs, <<p, g>>)
  ELSE IF <<p, g>> \in DOMAIN vs
       THEN [vs EXCEPT ![<<p, g>>].voteCount = n]
       ELSE (<<p, g>> :> [sessionId |-> s, voteCount |-> n]) @@ vs

\* a store that checks no reference of a created vote row
VoteRefsAny(s, p, g) == TRUE

\* the foreign keys of a created vote row
VoteRefsExist(s, p, g) ==
  s \in DOMAIN sessions /\ p \in DOMAIN participants /\ g \in DOMAIN groups

\* lines 542-554
Write(h) ==
  /\ hs[h].pc = "write"
  /\ UNCHANGED <<sessions, participants, responses, groups, connections, nextGroup, idVars, ioVars, cmds>>
  /\ LET fr == hs[h]
         key == <<fr.participantId, fr.actualGroupId>>
     IN IF fr.voteCount # 0 /\ key \notin DOMAIN votes
           /\ ~VoteRefsExist(fr.sessionId, fr.participantId, fr.actualGroupId)
        THEN /\ Fail(h, fr.socket, "Failed to cast vote")
             /\ UNCHANGED votes
        ELSE /\ votes' = WriteVote(votes, fr.sessionId, fr.participantId,
                                   fr.actualGroupId, fr.voteCount)
             /\ hs' = [hs EXCEPT ![h] = [fr EXCEPT !.pc = "aggGroup"]]
             /\ out' = <<>>

\* lines 556-561
AggGroup(h) ==
  /\ hs[h].pc = "aggGroup"
  /\ UNCHANGED <<dbVars, idVars, ioVars, cmds>>
  /\ hs' = [hs EXCEPT ![h] =
       [hs[h] EXCEPT !.pc = "updateGroup",
                        !.totalGroupVotes = SumByGroup(votes, hs[h].actualGroupId)]]
  /\ out' = <<>>

\* lines 563-567
UpdateGroup(h) ==
  /\ hs[h].pc = "updateGroup"
  /\ UNCHANGED <<sessions, participants, responses, connections, votes, nextGroup, idVars, ioVars, cmds>>
  /\ LET fr == hs[h]
     IN IF fr.actualGroupId \notin DOMAIN groups
        THEN /\ Fail(h, fr.socket, "Failed to cast vote")
             /\ UNCHANGED groups
        ELSE /\ groups' = [groups EXCEPT ![fr.actualGroupId].voteCount = fr.totalGroupVotes]
             /\ hs' = [hs EXCEPT ![h] = [fr EXCEPT !.pc = "findVotes"]]
             /\ out' = <<>>

\* lines 569-577: vote.findMany({ where: { sessionId } })
FindVotes(h) ==
  /\ hs[h].pc = "findVotes"
  /\ UNCHANGED <<dbVars, idVars, ioVars, cmds>>
  /\ LET fr == hs[h]
         used == [p \in ParticipantIds |->
                    SumBySessionParticipant(votes, fr.sessionId, p)]
     IN hs' = [hs EXCEPT ![h] = [fr EXCEPT !.pc = "findParticipants", !.used = used]]
  /\ out' = <<>>

\* lines 579-597: participant.findMany, participantProgress, votes_updated
FindParticipants(h) ==
  /\ hs[h].pc = "findParticipants"
  /\ UNCHANGED <<dbVars, idVars, ioVars, cmds>>
  /\ LET fr == hs[h]
         allParticipants == {p \in DOMAIN participants :
                               participants[p].sessionId = fr.sessionId}
         participantProgress == [p \in allParticipants |-> VoteQuota - fr.used[p]]
     IN /\ hs' = [hs EXCEPT ![h] = Idle]
        /\ out' = <<Msg("votes_updated", "room", fr.sessionId, fr.socket, fr.groupId,
                        fr.totalGroupVotes, participantProgress)>>

(***************************************************************************)
(* The voting specification: cast_vote commands of two participants of     *)
(* session s1 on a persisted group, an ungrouped response and a chain.     *)
(***************************************************************************)
VoteSockets == {"c1"}
VoteSessionIds == {"s1"}
VoteParticipantIds == {"p1", "p2"}
VoteTargets == {PlainTarget("g1"), IndividualTarget("r1"), ConnectedTarget(<<"r1", "r2">>)}
VoteCounts == 0..MaxVoteCount

\* the participants of the two sessions, none of them connected
StoreParticipants ==
  ("p1" :> [sessionId |-> "s1", displayName |-> "ann", isHost |-> TRUE, socketId |-> Null])
  @@ ("p2" :> [sessionId |-> "s1", displayName |-> "bob", isHost |-> FALSE, socketId |-> Null])
  @@ ("p3" :> [sessionId |-> "s2", displayName |-> "ann", isHost |-> TRUE, socketId |-> Null])

InitTables ==
  /\ sessions = [s \in SessionIds |->
        [currentPhase |-> "INPUT", timerDuration |-> 0, timerEndTime |-> NoTime,
         hostId |-> IF s = "s1" THEN "p1" ELSE "p3"]]
  /\ responses =
        ("r1" :> [sessionId |-> "s1", participantId |-> "p1", groupId |-> Null,
                  content |-> "a"])
        @@ ("r2" :> [sessionId |-> "s1", participantId |-> "p2", groupId |-> Null,
                     content |-> "a"])
        @@ ("r3" :> [sessionId |-> "s1", participantId |-> "p2", groupId |-> "g1",
                     content |-> "a"])
        @@ ("r4" :> [sessionId |-> "s2", participantId |-> "p3", groupId |-> Null,
                     content |-> "a"])
  /\ groups = ("g1" :> [sessionId |-> "s1", voteCount |-> 0])
  /\ connections = <<>>
  /\ votes = <<>>
  /\ nextGroup = 2
  /\ nextConn = 1
  /\ nextPart = 1
  /\ nextResp = 1

InitStore ==
  /\ InitTables
  /\ participants = StoreParticipants

InitIo ==
  /\ rooms = {}
  /\ live = ConnIds
  /\ redis = <<>>
  /\ now = 0

\* the socket c1 has joined session s1 as p1
InitVote ==
  /\ InitTables
  /\ participants = [StoreParticipants EXCEPT !["p1"].socketId = "c1"]
  /\ rooms = {<<"c1", "s1">>}
  /\ live = ConnIds
  /\ redis = (PresenceKey("p1") :> "c1")
  /\ now = 0
  /\ hs = [h \in Handlers |-> Idle]
  /\ out = <<>>
  /\ cmds = 0

NextVote ==
  \/ \E h \in Handlers, c \in VoteSockets, s \in VoteSessionIds, p \in VoteParticipantIds,
        t \in VoteTargets, n \in VoteCounts : CastVote(h, c, s, p, t, n)
  \/ \E h \in Handlers : FindUngrouped(h)
  \/ \E h \in Handlers : FindResponse(h)
  \/ \E h \in Handlers : CreateGroup(h)
  \/ \E h \in Handlers : Assign(h)
  \/ \E h \in Handlers : AggTotal(h)
  \/ \E h \in Handlers : GetExisting(h)
  \/ \E h \in Handlers : Write(h)
  \/ \E h \in Handlers : AggGroup(h)
  \/ \E h \in Handlers : UpdateGroup(h)
  \/ \E h \in Handlers : FindVotes(h)
  \/ \E h \in Handlers : FindParticipants(h)

SpecVote == InitVote /\ [][NextVote]_vars

(***************************************************************************)
(* create_connection and remove_connection.                                *)
(***************************************************************************)
ConnFrame(op, c, s, from, to, id) ==
  [pc |-> "start", op |-> op, socket |-> c, sessionId |-> s,
   fromResponseId |-> from, toResponseId |-> to, connectionId |-> id]

\* the OR of lines 307-315: a connection of the session between the pair, in either order
ExistingConnection(cs, s, from, to) ==
  {k \in DOMAIN cs :
     /\ cs[k].sessionId = s
     /\ \/ cs[k].fromResponseId = from /\ cs[k].toResponseId = to
        \/ cs[k].fromResponseId = to /\ cs[k].toResponseId = from}

\* lines 302-320: parse, connection.findFirst, 'Connection already exists'
CreateConnection(h, c, s, from, to) ==
  /\ cmds < MaxConnCmds
  /\ FreeSlot(h)
  /\ cmds' = cmds + 1
  /\ UNCHANGED <<dbVars, idVars, ioVars>>
  /\ IF ExistingConnection(connections, s, from, to) # {}
     THEN Fail(h, c, "Connection already exists")
     ELSE /\ hs' = [hs EXCEPT ![h] =
               [ConnFrame("create_connection", c, s, from, to, Null)
                  EXCEPT !.pc = "findResponses"]]
          /\ out' = <<>>

\* a lookup of the two endpoints that leaves the session out
EndpointsAnywhere(rs, s, from, to) == {from, to} \cap DOMAIN rs

\* a lookup that returns one row for each listed id, also for an id listed twice
EndpointsPerListedId(rs, s, from, to) ==
  {i \in 1..2 : <<from, to>>[i] \in DOMAIN rs /\ rs[<<from, to>>[i]].sessionId = s}

\* lines 322-333: response.findMany of the two endpoints in the session
EndpointsInSession(rs, s, from, to) ==
  {r \in {from, to} \cap DOMAIN rs : rs[r].sessionId = s}

FindResponses(h) ==
  /\ hs[h].pc = "findResponses"
  /\ UNCHANGED <<dbVars, idVars, ioVars, cmds>>
  /\ LET fr == hs[h]
     IN IF Cardinality(EndpointsInSession(responses, fr.sessionId, fr.fromResponseId,
                                          fr.toResponseId)) # 2
        THEN Fail(h, fr.socket, "Invalid responses for connection")
        ELSE /\ hs' = [hs EXCEPT ![h] = [fr EXCEPT !.pc = "createConnection"]]
             /\ out' = <<>>

\* the foreign keys of a created connection row
ConnectionRefsExist(s, from, to) ==
  s \in DOMAIN sessions /\ from \in DOMAIN responses /\ to \in DOMAIN responses

\* a row with the same ordered pair: the only create a unique index on
\* (fromResponseId, toResponseId) could refuse
SameOrderedPair(cs, from, to) ==
  \E k \in DOMAIN cs : cs[k].fromResponseId = from /\ cs[k].toResponseId = to

\* lines 335-344: connection.create, connection_created to the room
InsertConnection(h) ==
  /\ hs[h].pc = "createConnection"
  /\ nextConn <= MaxConnections
  /\ UNCHANGED <<sessions, participants, responses, groups, votes, nextGroup, nextPart, nextResp,
                 ioVars, cmds>>
  /\ LET fr == hs[h]
         id == ConnectionIdSeq[nextConn]
     IN \/ /\ ~ConnectionRefsExist(fr.sessionId, fr.fromResponseId, fr.toResponseId)
              \/ SameOrderedPair(connections, fr.fromResponseId, fr.toResponseId)
           /\ Fail(h, fr.socket, "Failed to create connection")
           /\ UNCHANGED <<connections, nextConn>>
        \/ /\ ConnectionRefsExist(fr.sessionId, fr.fromResponseId, fr.toResponseId)
           /\ connections' = (id :> [sessionId |-> fr.sessionId,
                                     fromResponseId |-> fr.fromResponseId,
                                     toResponseId |-> fr.toResponseId]) @@ connections
           /\ nextConn' = nextConn + 1
           /\ hs' = [hs EXCEPT ![h] = Idle]
           /\ out' = <<Msg("connection_created", "room", fr.sessionId, fr.socket, id, 0,
                           <<fr.fromResponseId, fr.toResponseId>>)>>

\* lines 352-364: parse, connection.findFirst, 'Connection not found'
RemoveConnection(h, c, s, id) ==
  /\ cmds < MaxConnCmds
  /\ FreeSlot(h)
  /\ cmds' = cmds + 1
  /\ UNCHANGED <<dbVars, idVars, ioVars>>
  /\ IF ~(id \in DOMAIN connections /\ connections[id].sessionId = s)
     THEN Fail(h, c, "Connection not found")
     ELSE /\ hs' = [hs EXCEPT ![h] =
               [ConnFrame("remove_connection", c, s, Null, Null, id)
                  EXCEPT !.pc = "deleteConnection"]]
          /\ out' = <<>>

\* lines 366-371: connection.delete, connection_removed to the room
DeleteConnection(h) ==
  /\ hs[h].pc = "deleteConnection"
  /\ UNCHANGED <<sessions, participants, responses, groups, votes, nextGroup, idVars,
                 ioVars, cmds>>
  /\ LET fr == hs[h]
     IN IF fr.connectionId \notin DOMAIN connections
        THEN /\ Fail(h, fr.socket, "Failed to remove connection")
             /\ UNCHANGED connections
        ELSE /\ connections' = Remove(connections, fr.connectionId)
             /\ hs' = [hs EXCEPT ![h] = Idle]
             /\ out' = <<Msg("connection_removed", "room", fr.sessionId, fr.socket,
                             fr.connectionId, 0, <<>>)>>

(***************************************************************************)
(* The connection specification: create_connection and remove_connection   *)
(* on responses of session s1 (r1, r2) and of session s2 (r4).             *)
(***************************************************************************)
ConnSockets == {"c1"}
ConnSessionIds == {"s1"}
ConnEndpoints == {"r1", "r2", "r4"}
ConnRemovable == {"k1", "k2"}

InitConn ==
  /\ InitStore
  /\ InitIo
  /\ hs = [h \in Handlers |-> Idle]
  /\ out = <<>>
  /\ cmds = 0

NextConn ==
  \/ \E h \in Handlers, c \in ConnSockets, s \in ConnSessionIds,
        from \in ConnEndpoints, to \in ConnEndpoints : CreateConnection(h, c, s, from, to)
  \/ \E h \in Handlers : FindResponses(h)
  \/ \E h \in Handlers : InsertConnection(h)
  \/ \E h \in Handlers, c \in ConnSockets, s \in ConnSessionIds, id \in ConnRemovable :
        RemoveConnection(h, c, s, id)
  \/ \E h \in Handlers : DeleteConnection(h)

SpecConn == InitConn /\ [][NextConn]_vars

(***************************************************************************)
(* join_session and disconnect.                                            *)
(***************************************************************************)

\* the participants bound to socket c
BoundTo(ps, c) == {p \in DOMAIN ps : ps[p].socketId = c}

\* lines 61-73: parse, participant.findFirst({ id, sessionId }), 'Participant not found'
JoinSession(h, c, s, p) ==
  /\ cmds < MaxPhaseCmds
  /\ FreeSlot(h)
  /\ c \in live
  /\ cmds' = cmds + 1
  /\ UNCHANGED <<dbVars, idVars, ioVars>>
  /\ IF ~(p \in DOMAIN participants /\ participants[p].sessionId = s)
     THEN Fail(h, c, "Participant not found")
     ELSE /\ hs' = [hs EXCEPT ![h] =
               [pc |-> "bind", op |-> "join_session", socket |-> c, sessionId |-> s,
                participantId |-> p, participant |-> participants[p]]]
          /\ out' = <<>>

\* a binding that is kept when the participant is bound already
BindKeepsStale(h) ==
  /\ hs[h].pc = "bind"
  /\ UNCHANGED <<sessions, responses, groups, connections, votes, nextGroup, idVars,
                 live, redis, now, cmds>>
  /\ LET fr == hs[h]
     IN /\ fr.participantId \in DOMAIN participants
        /\ participants' =
             IF participants[fr.participantId].socketId = Null
             THEN [participants EXCEPT ![fr.participantId].socketId = fr.socket]
             ELSE participants
        /\ rooms' = IF fr.socket \in live
                    THEN rooms \cup {<<fr.socket, fr.sessionId>>}
                    ELSE rooms
        /\ hs' = [hs EXCEPT ![h] = [fr EXCEPT !.pc = "listParticipants"]]
        /\ out' = <<>>

\* lines 75-83: participant.update({ socketId: socket.id }), socket.join(room)
Bind(h) ==
  /\ hs[h].pc = "bind"
  /\ UNCHANGED <<sessions, responses, groups, connections, votes, nextGroup, idVars,
                 live, redis, now, cmds>>
  /\ LET fr == hs[h]
     IN IF fr.participantId \notin DOMAIN participants
        THEN /\ Fail(h, fr.socket, "Invalid session data")
             /\ UNCHANGED <<participants, rooms>>
        ELSE /\ participants' = [participants EXCEPT ![fr.participantId].socketId = fr.socket]
             /\ rooms' = IF fr.socket \in live
                         THEN rooms \cup {<<fr.socket, fr.sessionId>>}
                         ELSE rooms
             /\ hs' = [hs EXCEPT ![h] = [fr EXCEPT !.pc = "listParticipants"]]
             /\ out' = <<>>

\* lines 85-112: participant.findMany, session_joined to the socket,
\* participant_joined to the rest of the room
ListParticipants(h) ==
  /\ hs[h].pc = "listParticipants"
  /\ UNCHANGED <<dbVars, idVars, ioVars, cmds>>
  /\ LET fr == hs[h]
         listed == {p \in DOMAIN participants : participants[p].sessionId = fr.sessionId}
     IN /\ hs' = [hs EXCEPT ![h] = [fr EXCEPT !.pc = "setPresence"]]
        /\ out' = <<Msg("session_joined", "socket", fr.socket, fr.socket, fr.participantId, 0,
                        [q \in listed |-> participants[q].socketId # Null]),
                    Msg("participant_joined", "others", fr.sessionId, fr.socket,
                        fr.participantId, 0, fr.participant.isHost)>>

\* line 114: redis.setEx(`participant:${participantId}`, 3600, socket.id)
SetPresence(h) ==
  /\ hs[h].pc = "setPresence"
  /\ UNCHANGED <<dbVars, idVars, rooms, live, now, cmds>>
  /\ redis' = (PresenceKey(hs[h].participantId) :> hs[h].socket)
                 @@ Remove(redis, PresenceKey(hs[h].participantId))
  /\ hs' = [hs EXCEPT ![h] = Idle]
  /\ out' = <<>>

\* the catch of disconnect only logs, lines 714-716
Quiet(h) ==
  /\ hs' = [hs EXCEPT ![h] = Idle]
  /\ out' = <<>>

\* lines 689-695: the socket is gone (it has left its rooms), participant.findFirst({ socketId })
Disconnect(h, c) ==
  /\ cmds < MaxPhaseCmds
  /\ FreeSlot(h)
  /\ c \in live
  /\ cmds' = cmds + 1
  /\ live' = live \ {c}
  /\ rooms' = {r \in rooms : r[1] # c}
  /\ UNCHANGED <<dbVars, idVars, redis, now>>
  /\ IF BoundTo(participants, c) = {}
     THEN Quiet(h)
     ELSE \E p \in BoundTo(participants, c) :
            /\ hs' = [hs EXCEPT ![h] =
                 [pc |-> "unbind", op |-> "disconnect", socket |-> c,
                  sessionId |-> participants[p].sessionId, participantId |-> p]]
            /\ out' = <<>>

\* lines 697-708: participant.update({ socketId: null }), participant_left to the others
Unbind(h) ==
  /\ hs[h].pc = "unbind"
  /\ UNCHANGED <<sessions, responses, groups, connections, votes, nextGroup, idVars,
                 ioVars, cmds>>
  /\ LET fr == hs[h]
     IN IF fr.participantId \notin DOMAIN participants
        THEN Quiet(h) /\ UNCHANGED participants
        ELSE /\ participants' = [participants EXCEPT ![fr.participantId].socketId = Null]
             /\ hs' = [hs EXCEPT ![h] = [fr EXCEPT !.pc = "delPresence"]]
             /\ out' = <<Msg("participant_left", "others", fr.sessionId, fr.socket,
                             fr.participantId, 0, <<>>)>>

\* line 710: redis.del(`participant:${participant.id}`)
DelPresence(h) ==
  /\ hs[h].pc = "delPresence"
  /\ UNCHANGED <<dbVars, idVars, rooms, live, now, cmds>>
  /\ redis' = Remove(redis, PresenceKey(hs[h].participantId))
  /\ hs' = [hs EXCEPT ![h] = [hs[h] EXCEPT !.pc = "delTyping"]]
  /\ out' = <<>>

\* line 711: redis.del(`typing:${participant.sessionId}:${participant.id}`)
DelTyping(h) ==
  /\ hs[h].pc = "delTyping"
  /\ UNCHANGED <<dbVars, idVars, rooms, live, now, cmds>>
  /\ redis' = Remove(redis, TypingKey(hs[h].sessionId, hs[h].participantId))
  /\ hs' = [hs EXCEPT ![h] = Idle]
  /\ out' = <<>>

(***************************************************************************)
(* change_phase, and the REST route PATCH /:sessionId/phase.               *)
(* timerDuration 0 stands for "not given" (the code tests its truthiness). *)
(***************************************************************************)
\* lines 136-144: the end time the handler computes
ResolveTimerEnd(stopTimer, timerDuration, t) ==
  IF stopTimer THEN NoTime
  ELSE IF timerDuration # 0 THEN At(t + timerDuration)
  ELSE NoTime

\* a host check that lets every bound participant through
IsHostRowAlways(p) == p \in DOMAIN participants

\* line 131: session.participants[0]?.isHost
IsHostRow(p) == participants[p].isHost

\* lines 122-144: parse, session.findUnique with the participants of this socket,
\* the host check, the end time
ChangePhase(h, c, s, phase, timerDuration, stopTimer) ==
  /\ cmds < MaxPhaseCmds
  /\ FreeSlot(h)
  /\ c \in live
  /\ cmds' = cmds + 1
  /\ UNCHANGED <<dbVars, idVars, ioVars>>
  /\ LET mine == IF s \in DOMAIN sessions
                 THEN {p \in BoundTo(participants, c) : participants[p].sessionId = s}
                 ELSE {}
     IN \/ /\ \/ mine = {}
              \/ \E p \in mine : ~IsHostRow(p)
           /\ Fail(h, c, "Unauthorized to change phase")
        \/ /\ \E p \in mine : IsHostRow(p)
           /\ hs' = [hs EXCEPT ![h] =
                [pc |-> "updateSession", op |-> "change_phase", socket |-> c,
                 sessionId |-> s, phase |-> phase, timerDuration |-> timerDuration,
                 stopTimer |-> stopTimer,
                 sessionTimerDuration |-> sessions[s].timerDuration,
                 sessionTimerEndTime |-> sessions[s].timerEndTime,
                 timerEndTime |-> ResolveTimerEnd(stopTimer, timerDuration, now)]]
           /\ out' = <<>>

\* lines 147-159: session.update, phase_changed to the room
UpdateSession(h) ==
  /\ hs[h].pc = "updateSession"
  /\ UNCHANGED <<participants, responses, groups, connections, votes, nextGroup, idVars,
                 ioVars, cmds>>
  /\ LET fr == hs[h]
     IN /\ sessions' = [sessions EXCEPT ![fr.sessionId] =
             [@ EXCEPT !.currentPhase = fr.phase,
                       !.timerDuration = IF fr.timerDuration # 0 THEN fr.timerDuration
                                         ELSE fr.sessionTimerDuration,
                       !.timerEndTime = IF fr.stopTimer THEN NoTime ELSE fr.timerEndTime]]
        /\ hs' = [hs EXCEPT ![h] = Idle]
        /\ out' = <<Msg("phase_changed", "room", fr.sessionId, fr.socket, fr.phase, 0,
                        fr.timerEndTime)>>

\* sessionRoutes PATCH /:sessionId/phase, part_000 lines 235-259
PatchPhase(s, phase, timerDuration) ==
  /\ cmds < MaxPhaseCmds
  /\ cmds' = cmds + 1
  /\ UNCHANGED <<participants, responses, groups, connections, votes, nextGroup, idVars,
                 ioVars, hs>>
  /\ IF s \notin DOMAIN sessions
     THEN /\ UNCHANGED sessions
          /\ out' = <<Msg("http", "response", Null, Null, "Failed to update phase", 500, <<>>)>>
     ELSE /\ sessions' = [sessions EXCEPT ![s] =
               [@ EXCEPT !.currentPhase = phase,
                         !.timerDuration = IF timerDuration # 0 THEN timerDuration ELSE @,
                         !.timerEndTime = IF timerDuration # 0 THEN At(now + timerDuration)
                                          ELSE NoTime]]
          /\ out' = <<Msg("http", "response", Null, Null, phase, 200, <<>>)>>

\* a clock that moves every session whose timer has ended on to the next phase
TickAdvances ==
  /\ now < MaxTicks * TickSeconds
  /\ now' = now + TickSeconds
  /\ out' = <<>>
  /\ sessions' = [s \in DOMAIN sessions |->
        IF sessions[s].timerEndTime # NoTime /\ sessions[s].timerEndTime[1] <= now'
        THEN [sessions[s] EXCEPT !.currentPhase = "DISCUSS", !.timerEndTime = NoTime]
        ELSE sessions[s]]
  /\ UNCHANGED <<participants, responses, groups, connections, votes, nextGroup, idVars,
                 rooms, live, redis, hs, cmds>>

\* time passes; no handler runs
Tick ==
  /\ now < MaxTicks * TickSeconds
  /\ now' = now + TickSeconds
  /\ out' = <<>>
  /\ UNCHANGED <<dbVars, idVars, rooms, live, redis, hs, cmds>>

(***************************************************************************)
(* The phase specification: two sockets join session s1 as its host p1 or  *)
(* as p2, disconnect, and request phase changes.                           *)
(***************************************************************************)
PhaseSockets == {"c1", "c2"}
PhaseSessionIds == {"s1"}
PhaseParticipantIds == {"p1", "p2"}
Phases == {"VOTE", "DISCUSS"}
PhaseDurations == {0, 60}

InitPhase ==
  /\ InitStore
  /\ InitIo
  /\ hs = [h \in Handlers |-> Idle]
  /\ out = <<>>
  /\ cmds = 0

NextPhase ==
  \/ \E h \in Handlers, c \in PhaseSockets, s \in PhaseSessionIds,
        p \in PhaseParticipantIds : JoinSession(h, c, s, p)
  \/ \E h \in Handlers : Bind(h)
  \/ \E h \in Handlers : ListParticipants(h)
  \/ \E h \in Handlers : SetPresence(h)
  \/ \E h \in Handlers, c \in PhaseSockets : Disconnect(h, c)
  \/ \E h \in Handlers : Unbind(h)
  \/ \E h \in Handlers : DelPresence(h)
  \/ \E h \in Handlers : DelTyping(h)
  \/ \E h \in Handlers, c \in PhaseSockets, s \in PhaseSessionIds, ph \in Phases,
        d \in PhaseDurations, st \in BOOLEAN : ChangePhase(h, c, s, ph, d, st)
  \/ \E h \in Handlers : UpdateSession(h)
  \/ \E s \in PhaseSessionIds, ph \in Phases, d \in PhaseDurations : PatchPhase(s, ph, d)
  \/ Tick

SpecPhase == InitPhase /\ [][NextPhase]_vars

(***************************************************************************)
(* The REST routes: POST / (create session), POST /join, PATCH and DELETE  *)
(* /:participantId.  A response is the notification "http" with its status *)
(* and error text.                                                         *)
(***************************************************************************)
\* res.status(status).json(...) of a route
Http(route, status, text) == Msg(route, "response", Null, Null, text, status, <<>>)

Reply(h, route, status, text) ==
  /\ hs' = [hs EXCEPT ![h] = Idle]
  /\ out' = <<Http(route, status, text)>>

\* a comparison of display names that keeps the letter case
LowerKeepsCase(name) == name

\* String.prototype.toLowerCase on the display names of the model
Lower(name) ==
  CASE name = "Ann" -> "ann"
    [] name = "ANN" -> "ann"
    [] name = "Bob" -> "bob"
    [] name = "Dee" -> "dee"
    [] OTHER -> name

\* the participants of session s
InSession(ps, s) == {p \in DOMAIN ps : ps[p].sessionId = s}

\* lines 89-91 of POST /join; the insensitive findFirst of PATCH
NameTaken(ps, among, name) ==
  \E p \in among : Lower(ps[p].displayName) = Lower(name)

\* a row of the session with exactly this display name: the only create or update
\* a unique index on (sessionId, displayName) could refuse
SameNameRow(ps, s, name, self) ==
  \E p \in InSession(ps, s) \ {self} : ps[p].displayName = name

\* POST /, part_000 lines 30-56: the session and its host in one nested create
CreateSession(hostName) ==
  /\ cmds < MaxPartCmds
  /\ nextPart <= MaxNewParticipants
  /\ NewSessionId \notin DOMAIN sessions
  /\ cmds' = cmds + 1
  /\ LET hostId == NewParticipantIdSeq[nextPart]
     IN /\ sessions' = (NewSessionId :>
               [currentPhase |-> "INPUT", timerDuration |-> 0, timerEndTime |-> NoTime,
                hostId |-> hostId]) @@ sessions
        /\ participants' = (hostId :>
               [sessionId |-> NewSessionId, displayName |-> hostName, isHost |-> TRUE,
                socketId |-> Null]) @@ participants
  /\ nextPart' = nextPart + 1
  /\ out' = <<Http("POST /", 201, "")>>
  /\ UNCHANGED <<responses, groups, connections, votes, nextGroup, nextConn, nextResp,
                 ioVars, hs>>

\* POST /join, part_000 lines 72-95: session.findUnique with its participants, the
\* checks on that snapshot.  The invite code stands for its session.
JoinRoute(h, s, displayName) ==
  /\ cmds < MaxPartCmds
  /\ FreeSlot(h)
  /\ cmds' = cmds + 1
  /\ UNCHANGED <<dbVars, idVars, ioVars>>
  /\ IF s \notin DOMAIN sessions
     THEN Reply(h, "POST /join", 404, "Session not found")
     ELSE IF Cardinality(InSession(participants, s)) >= MaxParticipants
     THEN Reply(h, "POST /join", 400, "Session is full")
     ELSE IF NameTaken(participants, InSession(participants, s), displayName)
     THEN Reply(h, "POST /join", 400, "Display name already taken")
     ELSE /\ hs' = [hs EXCEPT ![h] =
               [pc |-> "createParticipant", op |-> "join", sessionId |-> s,
                displayName |-> displayName]]
          /\ out' = <<>>

\* POST /join, part_000 lines 97-114: participant.create
CreateParticipant(h) ==
  /\ hs[h].pc = "createParticipant"
  /\ nextPart <= MaxNewParticipants
  /\ UNCHANGED <<sessions, responses, groups, connections, votes, nextGroup, nextConn, nextResp,
                 ioVars, cmds>>
  /\ LET fr == hs[h]
         id == NewParticipantIdSeq[nextPart]
     IN \/ /\ SameNameRow(participants, fr.sessionId, fr.displayName, id)
           /\ Reply(h, "POST /join", 500, "Failed to join session")
           /\ UNCHANGED <<participants, nextPart>>
        \/ /\ participants' = (id :>
                [sessionId |-> fr.sessionId, displayName |-> fr.displayName,
                 isHost |-> FALSE, socketId |-> Null]) @@ participants
           /\ nextPart' = nextPart + 1
           /\ Reply(h, "POST /join", 201, "")

\* PATCH /:participantId, lines 773-792 (and 810-815 when no displayName is given:
\* displayName = Null, only the avatar changes)
PatchParticipant(h, id, displayName) ==
  /\ cmds < MaxPartCmds
  /\ FreeSlot(h)
  /\ cmds' = cmds + 1
  /\ UNCHANGED <<dbVars, idVars, ioVars>>
  /\ IF id \notin DOMAIN participants
     THEN IF displayName = Null
          THEN Reply(h, "PATCH", 500, "Failed to update participant")
          ELSE Reply(h, "PATCH", 404, "Participant not found")
     ELSE IF displayName = Null
     THEN Reply(h, "PATCH", 200, "")
     ELSE /\ hs' = [hs EXCEPT ![h] =
               [pc |-> "findNameHolder", op |-> "patch", participantId |-> id,
                sessionId |-> participants[id].sessionId, displayName |-> displayName]]
          /\ out' = <<>>

\* PATCH, lines 794-807: findFirst of another participant with the name, insensitive
FindNameHolder(h) ==
  /\ hs[h].pc = "findNameHolder"
  /\ UNCHANGED <<dbVars, idVars, ioVars, cmds>>
  /\ LET fr == hs[h]
     IN IF NameTaken(participants,
                     InSession(participants, fr.sessionId) \ {fr.participantId},
                     fr.displayName)
        THEN Reply(h, "PATCH", 400, "Display name already taken")
        ELSE /\ hs' = [hs EXCEPT ![h] = [fr EXCEPT !.pc = "updateParticipant"]]
             /\ out' = <<>>

\* PATCH, lines 810-815: participant.update
UpdateParticipant(h) ==
  /\ hs[h].pc = "updateParticipant"
  /\ UNCHANGED <<sessions, responses, groups, connections, votes, nextGroup, idVars,
                 ioVars, cmds>>
  /\ LET fr == hs[h]
     IN \/ /\ \/ fr.participantId \notin DOMAIN participants
              \/ SameNameRow(participants, fr.sessionId, fr.displayName, fr.participantId)
           /\ Reply(h, "PATCH", 500, "Failed to update participant")
           /\ UNCHANGED participants
        \/ /\ fr.participantId \in DOMAIN participants
           /\ participants' =
                [participants EXCEPT ![fr.participantId].displayName = fr.displayName]
           /\ Reply(h, "PATCH", 200, "")

\* DELETE /:participantId, lines 826-840: participant.findUnique
DeleteParticipant(h, id) ==
  /\ cmds < MaxPartCmds
  /\ FreeSlot(h)
  /\ cmds' = cmds + 1
  /\ UNCHANGED <<dbVars, idVars, ioVars>>
  /\ IF id \notin DOMAIN participants
     THEN Reply(h, "DELETE", 404, "Participant not found")
     ELSE /\ hs' = [hs EXCEPT ![h] =
               [pc |-> IF participants[id].isHost THEN "findOthers" ELSE "deleteParticipant",
                op |-> "delete", participantId |-> id,
                sessionId |-> participants[id].sessionId,
                isHost |-> participants[id].isHost, promoted |-> Null]]
          /\ out' = <<>>

\* DELETE, lines 841-848: participant.findMany of the others; otherParticipants[0]
FindOthers(h) ==
  /\ hs[h].pc = "findOthers"
  /\ UNCHANGED <<dbVars, idVars, ioVars, cmds>>
  /\ out' = <<>>
  /\ LET fr == hs[h]
         otherParticipants == InSession(participants, fr.sessionId) \ {fr.participantId}
     IN IF otherParticipants = {}
        THEN hs' = [hs EXCEPT ![h] = [fr EXCEPT !.pc = "deleteParticipant"]]
        ELSE \E q \in otherParticipants :
               hs' = [hs EXCEPT ![h] = [fr EXCEPT !.pc = "promote", !.promoted = q]]

\* DELETE, lines 849-852: participant.update({ isHost: true })
Promote(h) ==
  /\ hs[h].pc = "promote"
  /\ UNCHANGED <<sessions, responses, groups, connections, votes, nextGroup, idVars,
                 ioVars, cmds>>
  /\ LET fr == hs[h]
     IN IF fr.promoted \notin DOMAIN participants
        THEN /\ Reply(h, "DELETE", 500, "Failed to delete participant")
             /\ UNCHANGED participants
        ELSE /\ participants' = [participants EXCEPT ![fr.promoted].isHost = TRUE]
             /\ hs' = [hs EXCEPT ![h] = [fr EXCEPT !.pc = "deleteParticipant"]]
             /\ out' = <<>>

\* DELETE, lines 856-860: participant.delete (of a participant without responses or votes)
DeleteRow(h) ==
  /\ hs[h].pc = "deleteParticipant"
  /\ UNCHANGED <<sessions, responses, groups, connections, votes, nextGroup, idVars,
                 ioVars, cmds>>
  /\ LET fr == hs[h]
     IN IF fr.participantId \notin DOMAIN participants
        THEN /\ Reply(h, "DELETE", 500, "Failed to delete participant")
             /\ UNCHANGED participants
        ELSE /\ participants' = Remove(participants, fr.participantId)
             /\ Reply(h, "DELETE", 204, "")

(***************************************************************************)
(* The participant specification: session s1 with its host "Ann" and 0, 2, *)
(* 13 or 14 further participants; joins, renames and removals.             *)
(***************************************************************************)
FillerIds == {"p4", "p5", "p6", "p7", "p8", "p9", "p10", "p11", "p12", "p13", "p14", "p15"}
Populations == {{"p1"}, {"p1", "p2", "p3"}, {"p1", "p2"} \cup FillerIds,
                {"p1", "p2", "p3"} \cup FillerIds}

\* the display name a participant of the initial population joined with
InitialName(p) ==
  CASE p = "p1" -> "Ann"
    [] p = "p2" -> "Bob"
    [] p = "p3" -> "cy"
    [] OTHER -> p

JoinCodes == {"s1"}
JoinNames == {"ann", "Dee", "dee"}
PatchIds == {"p2", "n1"}
PatchNames == {"ANN", "dee", Null}
DeleteIds == {"p1", "p2", "p3", "n1"}
HostNames == {"Ann"}

InitPart ==
  /\ \E pop \in Populations :
       participants = [p \in pop |->
         [sessionId |-> "s1", displayName |-> InitialName(p), isHost |-> (p = "p1"),
          socketId |-> Null]]
  /\ sessions = ("s1" :> [currentPhase |-> "INPUT", timerDuration |-> 0,
                          timerEndTime |-> NoTime, hostId |-> "p1"])
  /\ responses = <<>>
  /\ groups = <<>>
  /\ connections = <<>>
  /\ votes = <<>>
  /\ nextGroup = 1
  /\ nextConn = 1
  /\ nextPart = 1
  /\ nextResp = 1
  /\ InitIo
  /\ hs = [h \in Handlers |-> Idle]
  /\ out = <<>>
  /\ cmds = 0

NextPart ==
  \/ \E n \in HostNames : CreateSession(n)
  \/ \E h \in Handlers, s \in JoinCodes, n \in JoinNames : JoinRoute(h, s, n)
  \/ \E h \in Handlers : CreateParticipant(h)
  \/ \E h \in Handlers, id \in PatchIds, n \in PatchNames : PatchParticipant(h, id, n)
  \/ \E h \in Handlers : FindNameHolder(h)
  \/ \E h \in Handlers : UpdateParticipant(h)
  \/ \E h \in Handlers, id \in DeleteIds : DeleteParticipant(h, id)
  \/ \E h \in Handlers : FindOthers(h)
  \/ \E h \in Handlers : Promote(h)
  \/ \E h \in Handlers : DeleteRow(h)

SpecPart == InitPart /\ [][NextPart]_vars

(***************************************************************************)
(* Claims about connections.                                               *)
(***************************************************************************)
UnorderedPair(cn) == {cn.fromResponseId, cn.toResponseId}

\* C3: in every reachable state, also when create_connection(a,b) and
\* create_connection(b,a) are handled concurrently, a session holds at most one
\* connection for an unordered pair of responses: never both a->b and b->a
C3_OneConnectionPerPair ==
  \A k1, k2 \in DOMAIN connections :
    (/\ k1 # k2
     /\ connections[k1].sessionId = connections[k2].sessionId
     /\ connections[k1].fromResponseId = connections[k2].toResponseId
     /\ connections[k1].toResponseId = connections[k2].fromResponseId)
    => UnorderedPair(connections[k1]) # UnorderedPair(connections[k2])

(***************************************************************************)
(* Claims about voting.                                                    *)
(***************************************************************************)
InFlight(h) == hs[h].pc # "idle"

IsVirtual(t) == t.prefix # ""

\* the handler is between its first store read and its last store write (group.update)
BeforeLastWrite(h) ==
  hs[h].pc \in {"findUngrouped", "findResponse", "createGroup", "assign", "aggTotal",
                   "getExisting", "write", "aggGroup", "updateGroup"}

\* C1: in every reachable state, also between the reads and writes of interleaved
\* cast_vote handlers, the vote counts of one participant over all groups sum to at most 4
C1_QuotaNeverExceeded ==
  \A p \in ParticipantIds : SumByParticipant(votes, p) <= VoteQuota

\* C2: two overlapping cast_vote commands of different participants on the same
\* not yet materialised virtual identifier never both create a group for it
C2_OneGroupPerVirtualTarget ==
  \A h1, h2 \in Handlers :
    (/\ h1 # h2
     /\ InFlight(h1) /\ InFlight(h2)
     /\ IsVirtual(hs[h1].groupId)
     /\ hs[h1].groupId = hs[h2].groupId
     /\ hs[h1].participantId # hs[h2].participantId)
    => ~(hs[h1].newGroup # Null /\ hs[h2].newGroup # Null)

\* C5: for one session at most one cast_vote handler is between its first store read
\* and its last store write
C5_OneWriterPerSession ==
  \A h1, h2 \in Handlers :
    (h1 # h2 /\ BeforeLastWrite(h1) /\ BeforeLastWrite(h2))
    => hs[h1].sessionId # hs[h2].sessionId

\* the step of handler h that writes the vote row
WriteStep(h) == hs[h].pc = "write" /\ hs'[h].pc = "aggGroup"

\* the step of handler h that persists the group's total
UpdateStep(h) == hs[h].pc = "updateGroup" /\ hs'[h].pc = "findVotes"

\* C10: an accepted cast_vote(p, g, n) leaves exactly the row (p, g) with count n (no row
\* for n = 0), changes no other row, and the total it persists on g is the sum of g's rows
C10_VoteReplacesAllocation ==
  [][\A h \in Handlers :
       /\ WriteStep(h) =>
            LET fr == hs[h]
                key == <<fr.participantId, fr.actualGroupId>>
            IN /\ IF fr.voteCount = 0
                  THEN key \notin DOMAIN votes'
                  ELSE key \in DOMAIN votes' /\ votes'[key].voteCount = fr.voteCount
               /\ DOMAIN votes' \ {key} = DOMAIN votes \ {key}
               /\ \A k \in DOMAIN votes \ {key} : votes'[k] = votes[k]
       /\ UpdateStep(h) =>
            groups'[hs[h].actualGroupId].voteCount
              = SumByGroup(votes', hs[h].actualGroupId)]_vars

(***************************************************************************)
(* Claims about phases (SpecPhase).                                        *)
(***************************************************************************)
\* connection c is bound to a host participant of session s
BoundToHost(c, s) ==
  \E p \in DOMAIN participants :
    /\ participants[p].socketId = c
    /\ participants[p].sessionId = s
    /\ participants[p].isHost

\* C4: a change_phase command arriving on a connection that is not bound to the
\* host participant of the session is answered with an error to that connection;
\* the command ends there, so the session's phase, timer duration and timer end
\* time stay as they were and no phase_changed is broadcast.
C4_NonHostPhaseRejected ==
  [][\A h \in Handlers, c \in PhaseSockets, s \in PhaseSessionIds, phase \in Phases,
        d \in PhaseDurations, stop \in BOOLEAN :
       (ChangePhase(h, c, s, phase, d, stop) /\ ~BoundToHost(c, s)) =>
          /\ out' = <<ErrorTo(c, "Unauthorized to change phase")>>
          /\ hs'[h] = Idle
          /\ sessions' = sessions]_vars

\* a connection bound to a participant who is not the host has just been refused
C4_NonHostRefused ==
  \E c \in PhaseSockets :
    /\ out = <<ErrorTo(c, "Unauthorized to change phase")>>
    /\ BoundTo(participants, c) # {}
    /\ ~BoundToHost(c, "s1")

(***************************************************************************)
(* Claims about participants (SpecPart).                                   *)
(***************************************************************************)
Hosts(ps, s) == {p \in InSession(ps, s) : ps[p].isHost}

\* display names that are the same word in another letter case
CaseClasses == {{"Ann", "ANN", "ann"}, {"Bob", "bob"}, {"Dee", "dee"}}
EqualIgnoringCase(a, b) == a = b \/ \E cls \in CaseClasses : a \in cls /\ b \in cls

\* C6: in every reachable state, the intermediate states of a removal and the
\* states reached by interleaved removals and joins included, a session with at
\* least one participant has exactly one participant with the host flag.
C6_ExactlyOneHost ==
  \A s \in DOMAIN sessions :
    InSession(participants, s) # {} => Cardinality(Hosts(participants, s)) = 1

\* the step in which DELETE /:participantId of handler h removes its participant
RemovalCompletes(h) ==
  /\ hs[h].pc = "deleteParticipant"
  /\ hs'[h] = Idle
  /\ out' = <<Http("DELETE", 204, "")>>

\* C7: when the removal of a participant that was read as the host completes, the
\* removed participant no longer exists and, if other participants remain in the
\* session, exactly one of them has the host flag (if none remains the session has
\* no participant and no host); when the removal of a participant that was read as
\* a non-host completes, the host of the session is the one it was.
C7_RemovalKeepsOneHost ==
  [][\A h \in Handlers :
       RemovalCompletes(h) =>
         LET fr == hs[h]
             rest == InSession(participants', fr.sessionId)
         IN /\ fr.participantId \notin DOMAIN participants'
            /\ IF fr.isHost
               THEN IF rest # {}
                    THEN Cardinality(Hosts(participants', fr.sessionId)) = 1
                    ELSE Hosts(participants', fr.sessionId) = {}
               ELSE Hosts(participants', fr.sessionId)
                      = Hosts(participants, fr.sessionId)]_vars

\* C8: in every reachable state no two participants of the same session have
\* display names that are equal ignoring case.  Stated for two names that differ
\* in their letter case, which are the pairs no index on the stored name could
\* tell apart: two joins, or a join and a rename, handled concurrently.
C8_NamesUniqueIgnoringCase ==
  \A p, q \in DOMAIN participants :
    (/\ p # q
     /\ participants[p].sessionId = participants[q].sessionId
     /\ participants[p].displayName # participants[q].displayName)
      => ~EqualIgnoringCase(participants[p].displayName, participants[q].displayName)

\* the display name of a join request is the name, ignoring case, of a participant
\* of the session
JoinNameTaken(s, name) ==
  \E p \in InSession(participants, s) :
    EqualIgnoringCase(participants[p].displayName, name)

\* C9, as stated: a join request whose display name equals, ignoring case, the name
\* of a participant already in the session is rejected with 'Display name already
\* taken' and the participant set is unchanged.
C9_TakenNameRejected ==
  [][\A h \in Handlers, s \in JoinCodes, n \in JoinNames :
       (JoinRoute(h, s, n) /\ s \in DOMAIN sessions /\ JoinNameTaken(s, n)) =>
          /\ out' = <<Http("POST /join", 400, "Display name already taken")>>
          /\ hs'[h] = Idle
          /\ participants' = participants]_vars

\* C9, amended: such a join request is rejected and the participant set is
\* unchanged; the error is 'Display name already taken' when the session has fewer
\* than 15 participants and 'Session is full' when it has 15.
C9_TakenNameRejectedOrFull ==
  [][\A h \in Handlers, s \in JoinCodes, n \in JoinNames :
       (JoinRoute(h, s, n) /\ s \in DOMAIN sessions /\ JoinNameTaken(s, n)) =>
          /\ out' = IF Cardinality(InSession(participants, s)) >= MaxParticipants
                    THEN <<Http("POST /join", 400, "Session is full")>>
                    ELSE <<Http("POST /join", 400, "Display name already taken")>>
          /\ hs'[h] = Idle
          /\ participants' = participants]_vars

\* a join under a name that a participant of the session holds in another letter
\* case has just been refused
C9_TakenNameRefused ==
  /\ out = <<Http("POST /join", 400, "Display name already taken")>>
  /\ \E n \in JoinNames : JoinNameTaken("s1", n) /\ ~SameNameRow(participants, "s1", n, Null)

(***************************************************************************)
(* Claims about the quota check, rejected commands and the group totals    *)
(* of cast_vote (SpecVote).                                                *)
(***************************************************************************)
\* the connections a notification is delivered to, with the rooms rm
Receivers(m, rm) ==
  CASE m.scope = "socket" -> {m.to}
    [] m.scope = "room" -> {c \in ConnIds : <<c, m.to>> \in rm}
    [] m.scope = "others" -> {c \in ConnIds : <<c, m.to>> \in rm} \ {m.from}
    [] OTHER -> {}

\* the count participant p has on group g
Allocation(p, g) == IF <<p, g>> \in DOMAIN votes THEN votes[<<p, g>>].voteCount ELSE 0

\* the step in which handler h decides on the quota
QuotaStep(h) == hs[h].pc = "getExisting" /\ hs'[h] # hs[h]

\* C11: when cast_vote(p, g, n) is decided, if p's total over all groups minus p's
\* allocation on g plus n exceeds 4 the command is rejected with an error and every
\* vote row and every group total is unchanged; if that value is at most 4 the
\* command is accepted.
C11_QuotaDecision ==
  [][\A h \in Handlers :
       QuotaStep(h) =>
         LET fr == hs[h]
             value == SumByParticipant(votes, fr.participantId)
                        - Allocation(fr.participantId, fr.actualGroupId) + fr.voteCount
         IN IF value > 4
            THEN /\ out' = <<ErrorTo(fr.socket, "Insufficient votes remaining")>>
                 /\ hs'[h] = Idle
                 /\ votes' = votes
                 /\ groups' = groups
            ELSE hs'[h].pc = "write"]_vars

\* the step in which the command of handler h ends with an error notification
ErrorEnds(h) ==
  /\ InFlight(h)
  /\ hs'[h] = Idle
  /\ \E i \in 1..Len(out') : out'[i].ev = "error"

\* the command of handler h has written to the store
HasWritten(h) ==
  \/ hs[h].newGroup # Null
  \/ hs[h].pc \in {"assign", "aggGroup", "updateGroup", "findVotes", "findParticipants"}

\* C12: a command that ends with an error notification has left the durable state
\* as it was: it has written nothing before the error and writes nothing with it;
\* in particular a cast_vote on a virtual target rejected for the quota has created
\* no group and regrouped no response.
C12_RejectedCommandWritesNothing ==
  [][\A h \in Handlers :
       ErrorEnds(h) =>
         /\ ~HasWritten(h)
         /\ <<sessions, participants, responses, groups, connections, votes>>'
              = <<sessions, participants, responses, groups, connections, votes>>]_vars

\* the command of handler h has already sent a notification that reached its own
\* connection: connected_group_created goes to the room of the session
NotifiedBefore(h) ==
  /\ hs[h].newGroup # Null
  /\ hs[h].pc # "assign"
  /\ <<hs[h].socket, hs[h].sessionId>> \in rooms

\* the notifications of out' that reach connection c
Reaching(c) == {i \in 1..Len(out') : c \in Receivers(out'[i], rooms')}

\* C17: the connection a command came from receives at most one notification as a
\* result of that command, a cast_vote on a virtual target included.
C17_AtMostOneNotification ==
  [][\A h \in Handlers :
       (InFlight(h) /\ hs'[h] # hs[h]) =>
         /\ Cardinality(Reaching(hs[h].socket)) <= 1
         /\ Reaching(hs[h].socket) # {} => ~NotifiedBefore(h)]_vars

\* no handler is in flight
Quiescent == \A h \in Handlers : ~InFlight(h)

\* C19: when no cast_vote handler is in flight, the persisted total of every group
\* is the sum of the counts of its vote rows, and the total carried by the last
\* votes_updated for a group is that persisted total.
C19_TotalIsSumOfRows ==
  Quiescent =>
    /\ \A g \in DOMAIN groups : groups[g].voteCount = SumByGroup(votes, g)
    /\ \A i \in 1..Len(out) :
         (out[i].ev = "votes_updated" /\ ~IsVirtual(out[i].id))
           => out[i].n = groups[out[i].id.parts[1]].voteCount

\* the responses of the session of handler h that its target names
Referenced(h) ==
  {r \in SeqRange(hs[h].groupId.parts) \cap DOMAIN responses :
     responses[r].sessionId = hs[h].sessionId}

\* the step in which handler h creates a group
CreateStep(h) == hs[h].pc = "createGroup" /\ hs'[h].pc = "assign"

\* C20: a cast_vote on a virtual target creates a group only when none of the
\* referenced responses is assigned to a group; the vote of a virtual target is
\* applied to the group of a referenced response; and a response assigned to a
\* group stays in it, so that the same virtual identifier resolves to the same
\* group again.
C20_VirtualTargetReusesGroup ==
  [][/\ \A h \in Handlers :
          /\ CreateStep(h) => \A r \in Referenced(h) : responses[r].groupId = Null
          /\ (WriteStep(h) /\ IsVirtual(hs[h].groupId)) =>
               \E r \in Referenced(h) : responses[r].groupId = hs[h].actualGroupId
     /\ \A r \in DOMAIN responses :
          responses[r].groupId # Null => responses'[r].groupId = responses[r].groupId]_vars

(***************************************************************************)
(* Claims about the timer of change_phase (SpecPhase).                     *)
(***************************************************************************)
\* the step in which the change_phase of handler h persists and broadcasts
PersistStep(h) == hs[h].pc = "updateSession" /\ hs'[h] = Idle

\* C13: the change_phase of a host persists the end time null with stopTimer,
\* otherwise the time of the command plus timerDuration seconds when a duration is
\* given, otherwise the end time the session had (when the command read the session
\* or when it writes); the phase_changed it broadcasts carries the new phase and the
\* end time that was persisted.
C13_TimerResolution ==
  [][\A h \in Handlers :
       PersistStep(h) =>
         LET fr == hs[h]
             end == sessions'[fr.sessionId].timerEndTime
         IN /\ IF fr.stopTimer THEN end = NoTime
               ELSE IF fr.timerDuration # 0
                    THEN \E t \in 0..now : end = At(t + fr.timerDuration)
                    ELSE end \in {fr.sessionTimerEndTime, sessions[fr.sessionId].timerEndTime}
            /\ sessions'[fr.sessionId].currentPhase = fr.phase
            /\ Len(out') = 1
            /\ out'[1].ev = "phase_changed"
            /\ out'[1].id = fr.phase
            /\ out'[1].data = end]_vars

(***************************************************************************)
(* The presentation commands, typing_start and typing_stop, add_response,  *)
(* update_response and delete_response.                                    *)
(***************************************************************************)
\* a host check that lets every participant bound to the socket through
HostOnAnyBound(ps, c, s) ==
  \E p \in DOMAIN ps : ps[p].socketId = c /\ ps[p].sessionId = s

\* participant.findFirst({ socketId: socket.id, sessionId, isHost: true }), lines 618-620
HostOn(ps, c, s) ==
  \E p \in DOMAIN ps : ps[p].socketId = c /\ ps[p].sessionId = s /\ ps[p].isHost

\* lines 612-626: parse, the host check
StartPresentation(h, c, s) ==
  /\ cmds < MaxRoomCmds
  /\ FreeSlot(h)
  /\ c \in live
  /\ cmds' = cmds + 1
  /\ UNCHANGED <<dbVars, idVars, ioVars>>
  /\ IF ~IsUuid(s)
     THEN Fail(h, c, "Failed to start presentation")
     ELSE IF ~HostOn(participants, c, s)
     THEN Fail(h, c, "Unauthorized to start presentation")
     ELSE /\ hs' = [hs EXCEPT ![h] =
               [pc |-> "fetchSockets", op |-> "start_presentation", socket |-> c,
                sessionId |-> s]]
          /\ out' = <<>>

\* lines 630-635: io.in(room).fetchSockets(), presentation_started to the room
FetchSockets(h) ==
  /\ hs[h].pc = "fetchSockets"
  /\ UNCHANGED <<dbVars, idVars, ioVars, cmds>>
  /\ hs' = [hs EXCEPT ![h] = Idle]
  /\ out' = <<Msg("presentation_started", "room", hs[h].sessionId, hs[h].socket, Null, 0,
                  <<>>)>>

\* lines 643-664
EndPresentation(h, c, s) ==
  /\ cmds < MaxRoomCmds
  /\ FreeSlot(h)
  /\ c \in live
  /\ cmds' = cmds + 1
  /\ UNCHANGED <<dbVars, idVars, ioVars>>
  /\ IF ~IsUuid(s)
     THEN Fail(h, c, "Failed to end presentation")
     ELSE IF ~HostOn(participants, c, s)
     THEN Fail(h, c, "Unauthorized to end presentation")
     ELSE /\ hs' = hs
          /\ out' = <<Msg("presentation_ended", "room", s, c, Null, 0, <<>>)>>

\* a navigate_presentation that clamps the index to the one presentable item
NavigateClamped(h, c, s, itemIndex) ==
  /\ cmds < MaxRoomCmds
  /\ FreeSlot(h)
  /\ c \in live
  /\ cmds' = cmds + 1
  /\ UNCHANGED <<dbVars, idVars, ioVars>>
  /\ IF ~IsUuid(s) \/ itemIndex < 0
     THEN Fail(h, c, "Failed to navigate presentation")
     ELSE IF ~HostOn(participants, c, s)
     THEN Fail(h, c, "Unauthorized to navigate presentation")
     ELSE /\ hs' = hs
          /\ out' = <<Msg("presentation_navigate", "room", s, c, Null, IF itemIndex > 0 THEN 0 ELSE itemIndex, <<>>)>>

\* lines 666-687; itemIndex is an integer >= 0
NavigatePresentation(h, c, s, itemIndex) ==
  /\ cmds < MaxRoomCmds
  /\ FreeSlot(h)
  /\ c \in live
  /\ cmds' = cmds + 1
  /\ UNCHANGED <<dbVars, idVars, ioVars>>
  /\ IF ~IsUuid(s) \/ itemIndex < 0
     THEN Fail(h, c, "Failed to navigate presentation")
     ELSE IF ~HostOn(participants, c, s)
     THEN Fail(h, c, "Unauthorized to navigate presentation")
     ELSE /\ hs' = hs
          /\ out' = <<Msg("presentation_navigate", "room", s, c, Null, itemIndex, <<>>)>>

\* lines 167-184: participant_typing_start to the others, redis.setEx; the catch only logs
TypingStart(h, c, s, p) ==
  /\ cmds < MaxRoomCmds
  /\ FreeSlot(h)
  /\ c \in live
  /\ cmds' = cmds + 1
  /\ UNCHANGED <<dbVars, idVars, rooms, live, now, hs>>
  /\ IF ~IsUuid(s) \/ ~IsUuid(p)
     THEN /\ out' = <<>>
          /\ UNCHANGED redis
     ELSE /\ out' = <<Msg("participant_typing_start", "others", s, c, p, 0, <<>>)>>
          /\ redis' = (TypingKey(s, p) :> c) @@ Remove(redis, TypingKey(s, p))

\* lines 186-203: participant_typing_stop to the others, redis.del; the catch only logs
TypingStop(h, c, s, p) ==
  /\ cmds < MaxRoomCmds
  /\ FreeSlot(h)
  /\ c \in live
  /\ cmds' = cmds + 1
  /\ UNCHANGED <<dbVars, idVars, rooms, live, now, hs>>
  /\ IF ~IsUuid(s) \/ ~IsUuid(p)
     THEN /\ out' = <<>>
          /\ UNCHANGED redis
     ELSE /\ out' = <<Msg("participant_typing_stop", "others", s, c, p, 0, <<>>)>>
          /\ redis' = Remove(redis, TypingKey(s, p))

\* an add_response that tells the whole room of the session
AddResponseToRoom(h, c, s, p, content) ==
  /\ cmds < MaxRoomCmds
  /\ FreeSlot(h)
  /\ c \in live
  /\ nextResp <= MaxNewResponses
  /\ cmds' = cmds + 1
  /\ UNCHANGED <<sessions, participants, groups, connections, votes, nextGroup, nextConn,
                 nextPart, ioVars>>
  /\ LET id == NewResponseIdSeq[nextResp]
     IN IF \/ ~IsUuid(s) \/ ~IsUuid(p) \/ content = ""
           \/ s \notin DOMAIN sessions \/ p \notin DOMAIN participants
        THEN /\ Fail(h, c, "Failed to add response")
             /\ UNCHANGED <<responses, nextResp>>
        ELSE /\ responses' = (id :> [sessionId |-> s, participantId |-> p,
                                     groupId |-> Null, content |-> content]) @@ responses
             /\ nextResp' = nextResp + 1
             /\ hs' = hs
             /\ out' = <<Msg("response_added", "room", s, c, id, 0, content)>>

\* lines 205-229: response.create, response_added to the socket
AddResponse(h, c, s, p, content) ==
  /\ cmds < MaxRoomCmds
  /\ FreeSlot(h)
  /\ c \in live
  /\ nextResp <= MaxNewResponses
  /\ cmds' = cmds + 1
  /\ UNCHANGED <<sessions, participants, groups, connections, votes, nextGroup, nextConn,
                 nextPart, ioVars>>
  /\ LET id == NewResponseIdSeq[nextResp]
     IN IF \/ ~IsUuid(s) \/ ~IsUuid(p) \/ content = ""
           \/ s \notin DOMAIN sessions \/ p \notin DOMAIN participants
        THEN /\ Fail(h, c, "Failed to add response")
             /\ UNCHANGED <<responses, nextResp>>
        ELSE /\ responses' = (id :> [sessionId |-> s, participantId |-> p,
                                     groupId |-> Null, content |-> content]) @@ responses
             /\ nextResp' = nextResp + 1
             /\ hs' = hs
             /\ out' = <<Msg("response_added", "socket", c, c, id, 0, content)>>

\* response.findFirst({ id, participant: { socketId: socket.id } }), lines 238-243, 274-279
OwnedOn(rs, ps, c, r) ==
  /\ r \in DOMAIN rs
  /\ rs[r].participantId \in DOMAIN ps
  /\ ps[rs[r].participantId].socketId = c

\* lines 231-248: parse, response.findFirst, 'Response not found or unauthorized'
UpdateResponse(h, c, r, content) ==
  /\ cmds < MaxRoomCmds
  /\ FreeSlot(h)
  /\ c \in live
  /\ cmds' = cmds + 1
  /\ UNCHANGED <<dbVars, idVars, ioVars>>
  /\ IF ~IsUuid(r) \/ content = ""
     THEN Fail(h, c, "Failed to update response")
     ELSE IF ~OwnedOn(responses, participants, c, r)
     THEN Fail(h, c, "Response not found or unauthorized")
     ELSE /\ hs' = [hs EXCEPT ![h] =
               [pc |-> "updateResponse", op |-> "update_response", socket |-> c,
                responseId |-> r, content |-> content]]
          /\ out' = <<>>

\* lines 250-265: response.update, response_updated to the socket
UpdateResponseRow(h) ==
  /\ hs[h].pc = "updateResponse"
  /\ UNCHANGED <<sessions, participants, groups, connections, votes, nextGroup, idVars,
                 ioVars, cmds>>
  /\ LET fr == hs[h]
     IN IF fr.responseId \notin DOMAIN responses
        THEN /\ Fail(h, fr.socket, "Failed to update response")
             /\ UNCHANGED responses
        ELSE /\ responses' = [responses EXCEPT ![fr.responseId].content = fr.content]
             /\ hs' = [hs EXCEPT ![h] = Idle]
             /\ out' = <<Msg("response_updated", "socket", fr.socket, fr.socket,
                             fr.responseId, 0, fr.content)>>

\* lines 268-285: parse, response.findFirst, 'Response not found or unauthorized'
DeleteResponse(h, c, r) ==
  /\ cmds < MaxRoomCmds
  /\ FreeSlot(h)
  /\ c \in live
  /\ cmds' = cmds + 1
  /\ UNCHANGED <<dbVars, idVars, ioVars>>
  /\ IF ~IsUuid(r)
     THEN Fail(h, c, "Failed to delete response")
     ELSE IF ~OwnedOn(responses, participants, c, r)
     THEN Fail(h, c, "Response not found or unauthorized")
     ELSE /\ hs' = [hs EXCEPT ![h] =
               [pc |-> "deleteResponse", op |-> "delete_response", socket |-> c,
                responseId |-> r]]
          /\ out' = <<>>

\* the connections that have response r as an endpoint
ConnectionsOf(cs, r) ==
  {k \in DOMAIN cs : cs[k].fromResponseId = r \/ cs[k].toResponseId = r}

\* lines 287-295: response.delete, response_deleted to the socket.  The foreign keys
\* of the connections of the response either refuse the delete or go with it.
DeleteResponseRow(h) ==
  /\ hs[h].pc = "deleteResponse"
  /\ UNCHANGED <<sessions, participants, groups, votes, nextGroup, idVars, ioVars, cmds>>
  /\ LET fr == hs[h]
     IN \/ /\ \/ fr.responseId \notin DOMAIN responses
              \/ ConnectionsOf(connections, fr.responseId) # {}
           /\ Fail(h, fr.socket, "Failed to delete response")
           /\ UNCHANGED <<responses, connections>>
        \/ /\ fr.responseId \in DOMAIN responses
           /\ responses' = Remove(responses, fr.responseId)
           /\ connections' = [k \in DOMAIN connections
                                  \ ConnectionsOf(connections, fr.responseId)
                                |-> connections[k]]
           /\ hs' = [hs EXCEPT ![h] = Idle]
           /\ out' = <<Msg("response_deleted", "socket", fr.socket, fr.socket,
                           fr.responseId, 0, <<>>)>>

(***************************************************************************)
(* The room specification: socket c1 has joined session s1 as its host p1  *)
(* and socket c2 as p2; both send presentation, typing, response and       *)
(* connection commands, join again and disconnect.                         *)
(***************************************************************************)
RoomSockets == {"c1", "c2"}
RoomSessionIds == {"s1", "x"}
RoomParticipantIds == {"p2"}
RoomItemIndexes == {-1, 0, 1}
RoomResponses == {"r1", "r2", "x"}
RoomContents == {"b", ""}
RoomPairs == {<<"r1", "r2">>, <<"r1", "r4">>}

InitRoom ==
  /\ InitTables
  /\ participants = [StoreParticipants EXCEPT !["p1"].socketId = "c1",
                                              !["p2"].socketId = "c2"]
  /\ rooms = {<<"c1", "s1">>, <<"c2", "s1">>}
  /\ live = ConnIds
  /\ redis = (PresenceKey("p1") :> "c1") @@ (PresenceKey("p2") :> "c2")
  /\ now = 0
  /\ hs = [h \in Handlers |-> Idle]
  /\ out = <<>>
  /\ cmds = 0

NextRoom ==
  \/ \E h \in Handlers, c \in RoomSockets, s \in RoomSessionIds : StartPresentation(h, c, s)
  \/ \E h \in Handlers : FetchSockets(h)
  \/ \E h \in Handlers, c \in RoomSockets, s \in RoomSessionIds : EndPresentation(h, c, s)
  \/ \E h \in Handlers, c \in RoomSockets, s \in RoomSessionIds, i \in RoomItemIndexes :
        NavigatePresentation(h, c, s, i)
  \/ \E h \in Handlers, c \in RoomSockets, s \in RoomSessionIds, p \in RoomParticipantIds :
        TypingStart(h, c, s, p)
  \/ \E h \in Handlers, c \in RoomSockets, s \in RoomSessionIds, p \in RoomParticipantIds :
        TypingStop(h, c, s, p)
  \/ \E h \in Handlers, c \in RoomSockets, s \in RoomSessionIds, p \in RoomParticipantIds,
        t \in RoomContents : AddResponse(h, c, s, p, t)
  \/ \E h \in Handlers, c \in RoomSockets, r \in RoomResponses, t \in RoomContents :
        UpdateResponse(h, c, r, t)
  \/ \E h \in Handlers : UpdateResponseRow(h)
  \/ \E h \in Handlers, c \in RoomSockets, r \in RoomResponses : DeleteResponse(h, c, r)
  \/ \E h \in Handlers : DeleteResponseRow(h)
  \/ \E h \in Handlers, c \in RoomSockets, pr \in RoomPairs :
        cmds < MaxRoomCmds /\ CreateConnection(h, c, "s1", pr[1], pr[2])
  \/ \E h \in Handlers : FindResponses(h)
  \/ \E h \in Handlers : InsertConnection(h)
  \/ \E h \in Handlers, c \in RoomSockets, p \in RoomParticipantIds :
        cmds < MaxRoomCmds /\ JoinSession(h, c, "s1", p)
  \/ \E h \in Handlers : Bind(h)
  \/ \E h \in Handlers : ListParticipants(h)
  \/ \E h \in Handlers : SetPresence(h)
  \/ \E h \in Handlers, c \in RoomSockets : cmds < MaxRoomCmds /\ Disconnect(h, c)
  \/ \E h \in Handlers : Unbind(h)
  \/ \E h \in Handlers : DelPresence(h)
  \/ \E h \in Handlers : DelTyping(h)

SpecRoom == InitRoom /\ [][NextRoom]_vars

(***************************************************************************)
(* Claims about the room commands (SpecRoom).                              *)
(***************************************************************************)
\* handler h, in flight, takes this step
Acts(h) == InFlight(h) /\ hs'[h] # hs[h]

\* C14: an error notification is delivered only to the connection whose command
\* caused it: it is sent to one socket, never to a room, no other connection
\* receives it, and it goes to the connection of the handler that raises it.
C14_ErrorsOnlyToOrigin ==
  [][\A i \in 1..Len(out') :
       out'[i].ev = "error" =>
         /\ out'[i].scope = "socket"
         /\ Receivers(out'[i], rooms') \subseteq {out'[i].from}
         /\ \A h \in Handlers : Acts(h) => out'[i].to = hs[h].socket]_vars

\* a command of one connection has just failed while another connection is in the
\* same room
C14_ErrorWithOthersInRoom ==
  \E c, d \in RoomSockets :
    /\ c # d
    /\ <<c, "s1">> \in rooms /\ <<d, "s1">> \in rooms
    /\ Len(out) = 1
    /\ out[1].ev = "error"
    /\ out[1].to = c

\* out' is one error notification to connection c and nothing else
OnlyErrorTo(c) ==
  /\ Len(out') = 1
  /\ out'[1].ev = "error"
  /\ out'[1].scope = "socket"
  /\ out'[1].to = c

\* out' is the notification ev delivered to every connection in the room of s
BroadcastTo(ev, s) ==
  /\ Len(out') = 1
  /\ out'[1].ev = ev
  /\ Receivers(out'[1], rooms') = {c \in ConnIds : <<c, s>> \in rooms'}

\* C15: start_presentation, end_presentation and navigate_presentation arriving on
\* a connection that is not bound to the host participant of the stated session
\* produce only an error to that connection and no broadcast; arriving on the
\* host's connection they are broadcast to every connection in the session's room.
C15_PresentationHostOnly ==
  [][/\ \A h \in Handlers, c \in RoomSockets, s \in RoomSessionIds :
          /\ (StartPresentation(h, c, s) /\ ~BoundToHost(c, s)) =>
               OnlyErrorTo(c) /\ hs'[h] = Idle
          /\ (StartPresentation(h, c, s) /\ BoundToHost(c, s)) =>
               hs'[h].pc = "fetchSockets" /\ hs'[h].sessionId = s
          /\ (EndPresentation(h, c, s) /\ ~BoundToHost(c, s)) => OnlyErrorTo(c)
          /\ (EndPresentation(h, c, s) /\ BoundToHost(c, s)) =>
               BroadcastTo("presentation_ended", s)
          /\ \A i \in RoomItemIndexes :
               /\ (NavigatePresentation(h, c, s, i) /\ ~BoundToHost(c, s)) => OnlyErrorTo(c)
               /\ (NavigatePresentation(h, c, s, i) /\ BoundToHost(c, s) /\ i >= 0) =>
                    BroadcastTo("presentation_navigate", s) /\ out'[1].n = i
     /\ \A h \in Handlers :
          (hs[h].pc = "fetchSockets" /\ Acts(h)) =>
             BroadcastTo("presentation_started", hs[h].sessionId)]_vars

\* the connection of a participant who is not the host has just been refused
C15_NonHostRefused ==
  \E c \in RoomSockets :
    /\ out = <<ErrorTo(c, "Unauthorized to navigate presentation")>>
    /\ BoundTo(participants, c) # {}
    /\ ~BoundToHost(c, "s1")

\* connection c is the connection bound to the participant who owns response r
OwnerOn(c, r) ==
  /\ r \in DOMAIN responses
  /\ responses[r].participantId \in DOMAIN participants
  /\ participants[responses[r].participantId].socketId = c

\* C16: update_response and delete_response change or delete a response only when
\* the originating connection is, at that moment, the connection bound to the
\* participant who owns the response; for a missing response or one owned by a
\* participant bound elsewhere the command is rejected with an error and the
\* responses are unchanged.
C16_OnlyOwnerChangesResponse ==
  [][/\ \A h \in Handlers :
          (/\ hs[h].pc \in {"updateResponse", "deleteResponse"}
           /\ Acts(h)
           /\ responses' # responses)
            => OwnerOn(hs[h].socket, hs[h].responseId)
     /\ \A h \in Handlers, c \in RoomSockets, r \in RoomResponses :
          /\ (DeleteResponse(h, c, r) /\ ~OwnerOn(c, r)) =>
               OnlyErrorTo(c) /\ hs'[h] = Idle /\ responses' = responses
          /\ \A t \in RoomContents :
               (UpdateResponse(h, c, r, t) /\ ~OwnerOn(c, r)) =>
                 OnlyErrorTo(c) /\ hs'[h] = Idle /\ responses' = responses]_vars

\* an error notification of out' goes to connection c
ErrorReaches(c) ==
  \E i \in 1..Len(out') : out'[i].ev = "error" /\ c \in Receivers(out'[i], rooms')

\* C18: a command with a malformed payload (a session, participant or response id
\* that is no UUID, an empty content, a negative index) results in an error
\* notification to the originating connection, for every command type.
C18_FailureGivesError ==
  [][\A h \in Handlers, c \in RoomSockets :
       /\ \A s \in RoomSessionIds :
            ~IsUuid(s) =>
              /\ StartPresentation(h, c, s) => ErrorReaches(c)
              /\ EndPresentation(h, c, s) => ErrorReaches(c)
              /\ \A i \in RoomItemIndexes :
                   NavigatePresentation(h, c, s, i) => ErrorReaches(c)
              /\ \A p \in RoomParticipantIds :
                   /\ TypingStart(h, c, s, p) => ErrorReaches(c)
                   /\ TypingStop(h, c, s, p) => ErrorReaches(c)
                   /\ \A t \in RoomContents :
                        AddResponse(h, c, s, p, t) => ErrorReaches(c)
       /\ \A r \in RoomResponses :
            ~IsUuid(r) =>
              /\ DeleteResponse(h, c, r) => ErrorReaches(c)
              /\ \A t \in RoomContents : UpdateResponse(h, c, r, t) => ErrorReaches(c)]_vars

(***************************************************************************)
(* The materialisation specification: cast_vote commands of participant p1 *)
(* of session s1 on well-formed and malformed targets, on responses of     *)
(* another session (r4) and on a grouped response (r3), while the owner of *)
(* r1 may delete it.                                                       *)
(***************************************************************************)
MatSockets == {"c1"}
MatSessionIds == {"s1"}
MatParticipantIds == {"p1"}
MatTargets ==
  {PlainTarget("g1"), PlainTarget("g9"),
   IndividualTarget("r1"), IndividualTarget("r4"), IndividualTarget("r9"),
   ConnectedTarget(<<"r1", "r4">>), ConnectedTarget(<<"r1", "r3">>),
   ConnectedTarget(<<"r1", "">>)}
MatCounts == {0, 1}
MatDeletable == {"r1"}

NextMat ==
  \/ \E h \in Handlers, c \in MatSockets, s \in MatSessionIds, p \in MatParticipantIds,
        t \in MatTargets, n \in MatCounts : CastVote(h, c, s, p, t, n)
  \/ \E h \in Handlers : FindUngrouped(h)
  \/ \E h \in Handlers : FindResponse(h)
  \/ \E h \in Handlers : CreateGroup(h)
  \/ \E h \in Handlers : Assign(h)
  \/ \E h \in Handlers : AggTotal(h)
  \/ \E h \in Handlers : GetExisting(h)
  \/ \E h \in Handlers : Write(h)
  \/ \E h \in Handlers : AggGroup(h)
  \/ \E h \in Handlers : UpdateGroup(h)
  \/ \E h \in Handlers : FindVotes(h)
  \/ \E h \in Handlers : FindParticipants(h)
  \/ \E h \in Handlers, c \in MatSockets, r \in MatDeletable :
        cmds < MaxCmds /\ DeleteResponse(h, c, r)
  \/ \E h \in Handlers : DeleteResponseRow(h)

SpecMat == InitVote /\ [][NextMat]_vars

(***************************************************************************)
(* Claims about the materialisation of virtual targets (SpecMat).          *)
(***************************************************************************)
\* the step in which handler h assigns the responses to the group it created
AssignStep(h) == hs[h].pc = "assign" /\ hs'[h].pc = "aggTotal"

\* the responses the target of handler h names that are in its session and ungrouped
Eligible(h) ==
  {r \in SeqRange(hs[h].groupId.parts) \cap DOMAIN responses :
     responses[r].sessionId = hs[h].sessionId /\ responses[r].groupId = Null}

\* C21: materialising a virtual target into a new group changes the group reference
\* only of the responses that the identifier names, that belong to the stated
\* session and that are ungrouped at that moment; every other response keeps its
\* group reference, and the new group belongs to the session of the responses
\* assigned to it.
C21_MaterialisationFrame ==
  [][\A h \in Handlers :
       AssignStep(h) =>
         /\ \A r \in DOMAIN responses \ Eligible(h) :
              responses'[r].groupId = responses[r].groupId
         /\ \A r \in DOMAIN responses :
              responses'[r].groupId = hs[h].newGroup
                => groups[hs[h].newGroup].sessionId = responses[r].sessionId]_vars

\* connected_group_created for the group handler h created, as the room of its session gets it
GroupCreatedNotice(h, m) ==
  /\ m.ev = "connected_group_created"
  /\ m.scope = "room"
  /\ m.to = hs[h].sessionId
  /\ m.id = hs[h].newGroup
  /\ m.data = hs[h].groupId.parts

\* C22: a command that has created a group broadcasts connected_group_created, with
\* the id of the new group and the referenced response ids, to the room of the
\* session in its next step, which is before its votes_updated or error; and
\* connected_group_created is emitted by no other step, so not when an existing
\* group is reused.
C22_CreatedGroupAnnounced ==
  [][/\ \A h \in Handlers :
          (Acts(h) /\ hs[h].pc = "assign") =>
            /\ Len(out') = 1
            /\ GroupCreatedNotice(h, out'[1])
     /\ \A i \in 1..Len(out') :
          out'[i].ev = "connected_group_created" =>
            \E h \in Handlers :
              /\ Acts(h)
              /\ hs[h].pc = "assign"
              /\ hs[h].newGroup \in DOMAIN groups
              /\ groups' = groups
              /\ GroupCreatedNotice(h, out'[i])]_vars

\* the strings of the model that are empty or do not have the form of a UUID
NoUuid == {"", "x"}

\* a connected- identifier with an empty or non-UUID element
BadChain(t) ==
  t.prefix = "connected-" /\ \E i \in 1..Len(t.parts) : t.parts[i] \in NoUuid

\* an individual- identifier that names no existing response
NoSuchResponse(t) == t.prefix = "individual-" /\ t.parts[1] \notin DOMAIN responses

\* a plain identifier that is not an existing group
NoSuchGroup(t) == t.prefix = "" /\ t.parts[1] \notin DOMAIN groups

\* the store as the step leaves it is the store as it was
StoreUnchanged ==
  <<sessions, participants, responses, groups, connections, votes>>'
    = <<sessions, participants, responses, groups, connections, votes>>

\* handler h runs a cast_vote that has not resolved its target yet
Unresolved(h) == hs[h].pc = "findResponse"

\* handler h runs a cast_vote
VoteHandler(h) == InFlight(h) /\ "groupId" \in DOMAIN hs[h]

\* C23: a cast_vote whose target is malformed (a connected- identifier with an empty
\* or non-UUID element, an individual- identifier naming no existing response, a
\* plain id that is no existing group) changes nothing in the store in any of its
\* steps and ends only with an error to its connection: the chain is refused on
\* arrival, the individual- target when the response is looked up, the plain id at
\* the latest when the vote row or the group total is written.
C23_MalformedTargetRejected ==
  [][\A h \in Handlers :
       /\ \A c \in MatSockets, s \in MatSessionIds, p \in MatParticipantIds,
             t \in MatTargets, n \in MatCounts :
            CastVote(h, c, s, p, t, n) =>
              /\ BadChain(t) => (OnlyErrorTo(c) /\ hs'[h] = Idle /\ StoreUnchanged)
              /\ (NoSuchResponse(t) \/ NoSuchGroup(t)) =>
                   ((out' = <<>> \/ OnlyErrorTo(c)) /\ StoreUnchanged)
       /\ (VoteHandler(h) /\ Acts(h)) =>
            /\ (Unresolved(h) /\ NoSuchResponse(hs[h].groupId)) =>
                 (OnlyErrorTo(hs[h].socket) /\ hs'[h] = Idle /\ StoreUnchanged)
            /\ NoSuchGroup(hs[h].groupId) =>
                 /\ StoreUnchanged
                 /\ hs'[h] = Idle => OnlyErrorTo(hs[h].socket)
                 /\ hs'[h].pc # "findVotes"]_vars

\* a vote on the plain id g9, which is no group, has been refused when its row or
\* the group total was to be written: no group was created and no response deleted,
\* so the error is not that of another target
C23_MalformedRefused ==
  /\ \A h \in Handlers : hs[h] = Idle
  /\ out = <<ErrorTo("c1", "Failed to cast vote")>>
  /\ votes = <<>>
  /\ DOMAIN groups = {"g1"}
  /\ DOMAIN responses = ResponseIds

(***************************************************************************)
(* The label of a materialised group.  A content is the sequence of its    *)
(* characters (UTF-16 code units, as String.prototype.length counts them). *)
(***************************************************************************)
MaxChain == 4         \* responses of one chain
MaxContent == 500     \* responseSchema: content max(500)

\* a content of n characters
Text(n) == [i \in 1..n |-> "a"]

\* '...'
Ellipsis == <<".", ".", ".">>

\* the separator of join: a space, a bullet, a space
Separator == <<" ", "bullet", " ">>

\* String.prototype.substring(0, k)
Substring(str, k) == SubSeq(str, 1, IF Len(str) < k THEN Len(str) ELSE k)

\* line 437: the part one response contributes to the label of a chain
ChainPart(content) ==
  IF Len(content) > 20 THEN Substring(content, 20) \o Ellipsis ELSE content

\* Array.prototype.join with the separator
RECURSIVE Join(_)
Join(parts) ==
  IF Len(parts) = 0 THEN <<>>
  ELSE IF Len(parts) = 1 THEN parts[1]
  ELSE parts[1] \o Separator \o Join(Tail(parts))

\* lines 436-438, 447: the label of the group of a chain
ChainLabel(contents) ==
  LET groupLabel == Join([i \in 1..Len(contents) |-> ChainPart(contents[i])])
  IN IF Len(groupLabel) > 80 THEN Substring(groupLabel, 80) \o Ellipsis ELSE groupLabel

\* lines 504-506: the label of the group of a single response
SingleLabel(content) ==
  IF Len(content) > 30 THEN Substring(content, 30) \o Ellipsis ELSE content

\* the content lengths of the model: the ends of the range and both sides of the
\* lengths the code tests
ContentLengths == {1, 20, 21, 30, 31, MaxContent}

ChainIdSeq == <<"r1", "r2", "r3", "r4", "r5">>

\* lines 489-511: the group created for 'individual-<r>', with its label
LabelIndividual(r) ==
  /\ nextGroup <= MaxGroups
  /\ r \in DOMAIN responses
  /\ groups' = (GroupIdSeq[nextGroup] :>
                  [sessionId |-> "s1", voteCount |-> 0,
                   label |-> SingleLabel(responses[r].content)]) @@ groups
  /\ nextGroup' = nextGroup + 1
  /\ out' = <<>>
  /\ UNCHANGED <<sessions, participants, responses, connections, votes, idVars, ioVars,
                 hs, cmds>>

\* lines 418-452: the group created for 'connected-<r1>--...' naming the responses
\* 1..k of the store, with its label
LabelConnected(k) ==
  /\ nextGroup <= MaxGroups
  /\ k <= Len(ChainIdSeq)
  /\ \A i \in 1..k : ChainIdSeq[i] \in DOMAIN responses
  /\ groups' = (GroupIdSeq[nextGroup] :>
                  [sessionId |-> "s1", voteCount |-> 0,
                   label |-> ChainLabel([i \in 1..k |-> responses[ChainIdSeq[i]].content])])
                 @@ groups
  /\ nextGroup' = nextGroup + 1
  /\ out' = <<>>
  /\ UNCHANGED <<sessions, participants, responses, connections, votes, idVars, ioVars,
                 hs, cmds>>

\* the store holds one to MaxChain ungrouped responses of session s1, of any content
InitLabel ==
  /\ \E k \in 1..MaxChain :
       \E lens \in [1..k -> ContentLengths] :
         responses = [r \in {ChainIdSeq[i] : i \in 1..k} |->
                        [sessionId |-> "s1", participantId |-> "p1", groupId |-> Null,
                         content |-> Text(lens[CHOOSE i \in 1..k : ChainIdSeq[i] = r])]]
  /\ sessions = [s \in SessionIds |->
        [currentPhase |-> "INPUT", timerDuration |-> 0, timerEndTime |-> NoTime,
         hostId |-> IF s = "s1" THEN "p1" ELSE "p3"]]
  /\ participants = StoreParticipants
  /\ groups = <<>>
  /\ connections = <<>>
  /\ votes = <<>>
  /\ nextGroup = MaxGroups
  /\ nextConn = 1
  /\ nextPart = 1
  /\ nextResp = 1
  /\ InitIo
  /\ hs = [h \in Handlers |-> Idle]
  /\ out = <<>>
  /\ cmds = 0

NextLabel ==
  \/ \E r \in SeqRange(ChainIdSeq) : LabelIndividual(r)
  \/ \E k \in 1..MaxChain : LabelConnected(k)

SpecLabel == InitLabel /\ [][NextLabel]_vars

\* C24: the label of a group created by materialisation has at most 30 characters
\* when it is created from a single response and at most 80 characters when it is
\* created from a chain, for every content length from 1 to 500.
C24_LabelLength ==
  [][/\ \A r \in SeqRange(ChainIdSeq) :
          LabelIndividual(r) => Len(groups'[GroupIdSeq[nextGroup]].label) <= 30
     /\ \A k \in 1..MaxChain :
          LabelConnected(k) => Len(groups'[GroupIdSeq[nextGroup]].label) <= 80]_vars

(***************************************************************************)
(* Claims about the remaining-budget map of votes_updated (SpecVote).      *)
(***************************************************************************)
\* C25: every votes_updated carries a remaining-budget map with an entry for every
\* participant of the session, those without a vote row included, and each entry
\* is 4 minus the sum of the vote rows of that participant in the store at the time
\* of the broadcast.
C25_ProgressFromStore ==
  \A i \in 1..Len(out) :
    out[i].ev = "votes_updated" =>
      /\ DOMAIN out[i].data = InSession(participants, out[i].to)
      /\ \A p \in DOMAIN out[i].data :
           out[i].data[p] = 4 - SumByParticipant(votes, p)

(***************************************************************************)
(* The presence specification: two sockets join session s1 as p1, as p2 or *)
(* as p3, who belongs to session s2, and disconnect.                       *)
(***************************************************************************)
PresenceSockets == {"c1", "c2"}
PresenceSessionIds == {"s1"}
PresenceParticipantIds == {"p1", "p2", "p3"}

NextPresence ==
  \/ \E h \in Handlers, c \in PresenceSockets, s \in PresenceSessionIds,
        p \in PresenceParticipantIds : JoinSession(h, c, s, p)
  \/ \E h \in Handlers : Bind(h)
  \/ \E h \in Handlers : ListParticipants(h)
  \/ \E h \in Handlers : SetPresence(h)
  \/ \E h \in Handlers, c \in PresenceSockets : Disconnect(h, c)
  \/ \E h \in Handlers : Unbind(h)
  \/ \E h \in Handlers : DelPresence(h)
  \/ \E h \in Handlers : DelTyping(h)

SpecPresence == InitPhase /\ [][NextPresence]_vars

(***************************************************************************)
(* Claims about join_session and disconnect (SpecPresence).                *)
(***************************************************************************)
\* participant p is a participant of session s
BelongsTo(p, s) == p \in DOMAIN participants /\ participants[p].sessionId = s

\* the connections in the room of session s after the step
RoomAfter(s) == {c \in ConnIds : <<c, s>> \in rooms'}

\* the step in which handler h binds its participant
BindStep(h) == hs[h].pc = "bind" /\ hs'[h].pc = "listParticipants"

\* the step in which handler h sends the notifications of its join
NotifyStep(h) == hs[h].pc = "listParticipants" /\ hs'[h] # hs[h]

\* C26: a join_session(S, P) on connection C that finds P in S binds P to C whatever
\* P was bound to before and changes no other binding, makes C a member of the room
\* of S while C is connected, and binding the same pair again changes neither; its
\* session_joined goes to C alone and its participant_joined to every other
\* connection of the room and not to C.  A join for a participant that does not
\* belong to S ends with an error to C, binds nothing and adds C to no room.
C26_JoinBindsAndNotifies ==
  [][\A h \in Handlers :
       /\ \A c \in PresenceSockets, s \in PresenceSessionIds, p \in PresenceParticipantIds :
            (JoinSession(h, c, s, p) /\ ~BelongsTo(p, s)) =>
              /\ OnlyErrorTo(c)
              /\ hs'[h] = Idle
              /\ participants' = participants
              /\ rooms' = rooms
       /\ BindStep(h) =>
            LET fr == hs[h] IN
            /\ BelongsTo(fr.participantId, fr.sessionId)
            /\ participants'[fr.participantId].socketId = fr.socket
            /\ \A q \in DOMAIN participants \ {fr.participantId} :
                 participants'[q] = participants[q]
            /\ fr.socket \in live => fr.socket \in RoomAfter(fr.sessionId)
            /\ rooms \subseteq rooms'
            /\ (participants[fr.participantId].socketId = fr.socket
                  /\ <<fr.socket, fr.sessionId>> \in rooms)
                 => (participants' = participants /\ rooms' = rooms)
       /\ NotifyStep(h) =>
            LET fr == hs[h] IN
            /\ Len(out') = 2
            /\ out'[1].ev = "session_joined"
            /\ Receivers(out'[1], rooms') = {fr.socket}
            /\ out'[2].ev = "participant_joined"
            /\ out'[2].id = fr.participantId
            /\ Receivers(out'[2], rooms') = RoomAfter(fr.sessionId) \ {fr.socket}]_vars

\* p1 was bound to c1, which is still in the room, and has joined again on c2: the
\* binding is c2 and participant_joined reaches c1 and not c2
C26_StaleBindingOverwritten ==
  /\ participants["p1"].socketId = "c2"
  /\ <<"c1", "s1">> \in rooms
  /\ Len(out) = 2
  /\ out[1].ev = "session_joined"
  /\ out[1].to = "c2"
  /\ out[2].id = "p1"
  /\ Receivers(out[2], rooms) = {"c1"}

\* the step in which the disconnect handled by h is finished
DisconnectHandled(h) ==
  /\ InFlight(h)
  /\ hs[h].op = "disconnect"
  /\ hs'[h] = Idle

\* C27: when the disconnect of connection C has been handled, no participant is
\* bound to C any more, also when C had joined as several participants, and no
\* presence marker names C.
C27_DisconnectUnbindsAll ==
  [][\A h \in Handlers :
       DisconnectHandled(h) =>
         /\ BoundTo(participants', hs[h].socket) = {}
         /\ \A k \in DOMAIN redis' : redis'[k] # hs[h].socket]_vars

(***************************************************************************)
(* The session specification: one command of every kind on session s1,     *)
(* from the host's connection c1 or from c2, the REST phase route and the  *)
(* clock; a timer of 20 seconds ends before the clock's tick.              *)
(***************************************************************************)
MaxSessionCmds == 2   \* commands of any kind started in one behaviour

NextSession ==
  \/ \E h \in Handlers, d \in {0, 20}, st \in BOOLEAN :
        cmds < MaxSessionCmds /\ ChangePhase(h, "c1", "s1", "VOTE", d, st)
  \/ \E h \in Handlers : UpdateSession(h)
  \/ cmds < MaxSessionCmds /\ PatchPhase("s1", "DISCUSS", 20)
  \/ Tick
  \/ \E h \in Handlers : cmds < MaxSessionCmds /\ JoinSession(h, "c2", "s1", "p2")
  \/ \E h \in Handlers : Bind(h)
  \/ \E h \in Handlers : ListParticipants(h)
  \/ \E h \in Handlers : SetPresence(h)
  \/ \E h \in Handlers : cmds < MaxSessionCmds /\ Disconnect(h, "c2")
  \/ \E h \in Handlers : Unbind(h)
  \/ \E h \in Handlers : DelPresence(h)
  \/ \E h \in Handlers : DelTyping(h)
  \/ \E h \in Handlers : cmds < MaxSessionCmds /\ TypingStart(h, "c2", "s1", "p2")
  \/ \E h \in Handlers : cmds < MaxSessionCmds /\ TypingStop(h, "c2", "s1", "p2")
  \/ \E h \in Handlers : cmds < MaxSessionCmds /\ AddResponse(h, "c2", "s1", "p2", "b")
  \/ \E h \in Handlers : cmds < MaxSessionCmds /\ UpdateResponse(h, "c2", "r2", "b")
  \/ \E h \in Handlers : UpdateResponseRow(h)
  \/ \E h \in Handlers : cmds < MaxSessionCmds /\ DeleteResponse(h, "c2", "r2")
  \/ \E h \in Handlers : DeleteResponseRow(h)
  \/ \E h \in Handlers : cmds < MaxSessionCmds /\ CreateConnection(h, "c2", "s1", "r1", "r2")
  \/ \E h \in Handlers : FindResponses(h)
  \/ \E h \in Handlers : InsertConnection(h)
  \/ \E h \in Handlers : cmds < MaxSessionCmds /\ RemoveConnection(h, "c2", "s1", "k1")
  \/ \E h \in Handlers : DeleteConnection(h)
  \/ \E h \in Handlers, t \in {PlainTarget("g1"), IndividualTarget("r1")} :
        cmds < MaxSessionCmds /\ CastVote(h, "c1", "s1", "p1", t, 1)
  \/ \E h \in Handlers : FindResponse(h)
  \/ \E h \in Handlers : CreateGroup(h)
  \/ \E h \in Handlers : Assign(h)
  \/ \E h \in Handlers : AggTotal(h)
  \/ \E h \in Handlers : GetExisting(h)
  \/ \E h \in Handlers : Write(h)
  \/ \E h \in Handlers : AggGroup(h)
  \/ \E h \in Handlers : UpdateGroup(h)
  \/ \E h \in Handlers : FindVotes(h)
  \/ \E h \in Handlers : FindParticipants(h)
  \/ \E h \in Handlers : cmds < MaxSessionCmds /\ StartPresentation(h, "c1", "s1")
  \/ \E h \in Handlers : FetchSockets(h)
  \/ \E h \in Handlers : cmds < MaxSessionCmds /\ EndPresentation(h, "c1", "s1")
  \/ \E h \in Handlers : cmds < MaxSessionCmds /\ NavigatePresentation(h, "c1", "s1", 1)

SpecSession == InitRoom /\ [][NextSession]_vars

(***************************************************************************)
(* Claims about the advisory timer (SpecSession).                          *)
(***************************************************************************)
\* C28: the phase and the timer fields of a session change only in a step that
\* handles a phase-change request (the session.update of change_phase or of the
\* REST phase route): not when time passes the timer end time, and not in a step of
\* a presence, typing, board, connection, voting or presentation command.
C28_PhaseChangesOnlyOnRequest ==
  [][sessions' # sessions =>
       \/ \E h \in Handlers : PersistStep(h)
       \/ PatchPhase("s1", "DISCUSS", 20)]_vars

\* the timer of session s1 has ended and the session is still in the phase the
\* timer was set with
C28_TimerElapsedPhaseKept ==
  /\ sessions["s1"].timerEndTime # NoTime
  /\ now > sessions["s1"].timerEndTime[1]
  /\ sessions["s1"].currentPhase = "VOTE"

(***************************************************************************)
(* The board specification: connections c1 and c2 are in the room of s1;   *)
(* c1 creates connections between responses of s1 (r1, r2, r3) and of s2   *)
(* (r4), a response with itself included, and removes connections, stating *)
(* session s1 or s2, while the owners of r1 and r2 may delete them.        *)
(***************************************************************************)
BoardEndpoints == {"r1", "r2", "r3", "r4"}
BoardSessionIds == {"s1", "s2"}
BoardRemovable == {"k1", "k2"}
BoardDeletable == {<<"c1", "r1">>, <<"c2", "r2">>}

NextBoard ==
  \/ \E h \in Handlers, from \in BoardEndpoints, to \in BoardEndpoints :
        CreateConnection(h, "c1", "s1", from, to)
  \/ \E h \in Handlers : FindResponses(h)
  \/ \E h \in Handlers : InsertConnection(h)
  \/ \E h \in Handlers, s \in BoardSessionIds, id \in BoardRemovable :
        RemoveConnection(h, "c1", s, id)
  \/ \E h \in Handlers : DeleteConnection(h)
  \/ \E h \in Handlers, d \in BoardDeletable : DeleteResponse(h, d[1], d[2])
  \/ \E h \in Handlers : DeleteResponseRow(h)

SpecBoard == InitRoom /\ [][NextBoard]_vars

(***************************************************************************)
(* Claims about create_connection and remove_connection (SpecBoard).       *)
(***************************************************************************)
\* response r exists and belongs to session s
ResponseOf(r, s) == r \in DOMAIN responses /\ responses[r].sessionId = s

\* a connection of session s joins the responses a and b, in either order
Connected(s, a, b) ==
  \E k \in DOMAIN connections :
    /\ connections[k].sessionId = s
    /\ {connections[k].fromResponseId, connections[k].toResponseId} = {a, b}

\* handler h runs a create_connection
Creating(h) == InFlight(h) /\ hs[h].pc \in {"findResponses", "createConnection"}

\* the step persists nothing and broadcasts nothing
NothingCreated ==
  /\ connections' = connections
  /\ \A i \in 1..Len(out') : out'[i].ev # "connection_created"

\* the step of handler h adds the connection of its command, and only it, and
\* broadcasts connection_created to the whole room of the session
CreatedAndBroadcast(h) ==
  /\ \E id \in DOMAIN connections' \ DOMAIN connections :
       /\ DOMAIN connections' = DOMAIN connections \cup {id}
       /\ connections'[id] = [sessionId |-> hs[h].sessionId,
                              fromResponseId |-> hs[h].fromResponseId,
                              toResponseId |-> hs[h].toResponseId]
       /\ \A k \in DOMAIN connections : connections'[k] = connections[k]
       /\ out'[1].id = id
  /\ BroadcastTo("connection_created", hs[h].sessionId)
  /\ hs'[h] = Idle

\* the statement of C29; selfToo says whether a connection of a response with
\* itself is to be persisted as well
CreateConnectionChecked(selfToo) ==
  /\ (\A h \in Handlers : ~(Creating(h) /\ Acts(h))) =>
       /\ DOMAIN connections' \subseteq DOMAIN connections
       /\ \A i \in 1..Len(out') : out'[i].ev # "connection_created"
  /\ \A h \in Handlers :
       (Creating(h) /\ Acts(h)) =>
         LET fr == hs[h]
             both == ResponseOf(fr.fromResponseId, fr.sessionId)
                       /\ ResponseOf(fr.toResponseId, fr.sessionId)
             two == selfToo \/ fr.fromResponseId # fr.toResponseId
         IN /\ ~both => (OnlyErrorTo(fr.socket) /\ hs'[h] = Idle /\ NothingCreated)
            /\ (both /\ two /\ fr.pc = "findResponses") =>
                 (hs'[h].pc = "createConnection" /\ NothingCreated)
            /\ (both /\ two /\ fr.pc = "createConnection"
                  /\ ~Connected(fr.sessionId, fr.fromResponseId, fr.toResponseId)) =>
                 CreatedAndBroadcast(h)

ConnectionOf(id, s) == id \in DOMAIN connections /\ connections[id].sessionId = s

\* handler h is about to delete the connection of its remove_connection
Removing(h) == InFlight(h) /\ hs[h].pc = "deleteConnection"

\* C30: remove_connection for a connection id that does not exist in the stated
\* session is rejected with an error and deletes nothing; otherwise exactly that
\* connection is deleted, every other connection is unchanged, and
\* connection_removed is broadcast to the whole room.
C30_RemoveConnectionChecked ==
  [][\A h \in Handlers :
       /\ \A s \in BoardSessionIds, id \in BoardRemovable :
            RemoveConnection(h, "c1", s, id) =>
              /\ connections' = connections
              /\ ~ConnectionOf(id, s) => (OnlyErrorTo("c1") /\ hs'[h] = Idle)
              /\ ConnectionOf(id, s) => (out' = <<>> /\ hs'[h].pc = "deleteConnection")
       /\ (Removing(h) /\ Acts(h)) =>
            LET fr == hs[h] IN
            IF ConnectionOf(fr.connectionId, fr.sessionId)
            THEN /\ DOMAIN connections' = DOMAIN connections \ {fr.connectionId}
                 /\ \A k \in DOMAIN connections' : connections'[k] = connections[k]
                 /\ BroadcastTo("connection_removed", fr.sessionId)
                 /\ out'[1].id = fr.connectionId
                 /\ hs'[h] = Idle
            ELSE /\ connections' = connections
                 /\ OnlyErrorTo(fr.socket)
                 /\ hs'[h] = Idle]_vars

\* a connection has been removed while another one exists: connection_removed has
\* gone to both connections of the room and the other connection is still there
C30_OneOfTwoRemoved ==
  /\ Len(out) = 1
  /\ out[1].ev = "connection_removed"
  /\ Receivers(out[1], rooms) = {"c1", "c2"}
  /\ out[1].id \notin DOMAIN connections
  /\ connections # <<>>

(***************************************************************************)
(* Claims about add_response and the presentation commands (SpecRoom).     *)
(***************************************************************************)
\* C31: an add_response with a content for an existing session and participant
\* persists one new ungrouped response and nothing else, and its response_added is
\* the only notification of the step and is delivered to the originating
\* connection alone; a refused add_response persists nothing and only tells the
\* originating connection.
C31_ResponseAddedToOriginOnly ==
  [][\A h \in Handlers, c \in RoomSockets, s \in RoomSessionIds, p \in RoomParticipantIds,
        t \in RoomContents :
       AddResponse(h, c, s, p, t) =>
         IF s \in DOMAIN sessions /\ p \in DOMAIN participants /\ t # ""
         THEN /\ \E id \in DOMAIN responses' \ DOMAIN responses :
                   /\ DOMAIN responses' = DOMAIN responses \cup {id}
                   /\ responses'[id] = [sessionId |-> s, participantId |-> p,
                                        groupId |-> Null, content |-> t]
                   /\ out'[1].id = id
              /\ \A r \in DOMAIN responses : responses'[r] = responses[r]
              /\ Len(out') = 1
              /\ out'[1].ev = "response_added"
              /\ Receivers(out'[1], rooms') = {c}
              /\ <<sessions, participants, groups, connections, votes>>'
                   = <<sessions, participants, groups, connections, votes>>
         ELSE /\ OnlyErrorTo(c)
              /\ StoreUnchanged]_vars

\* c2 has added a response while c1 is in the room of the session as well
C31_AddedWithOthersInRoom ==
  /\ Len(out) = 1
  /\ out[1].ev = "response_added"
  /\ out[1].to = "c2"
  /\ out[1].id \in DOMAIN responses
  /\ {<<"c1", "s1">>, <<"c2", "s1">>} \subseteq rooms

\* everything but the handlers, the notifications and the command count is as it was
NothingStored ==
  <<sessions, participants, responses, groups, connections, votes, nextGroup, nextConn,
    nextPart, nextResp, rooms, live, redis, now>>'
    = <<sessions, participants, responses, groups, connections, votes, nextGroup, nextConn,
        nextPart, nextResp, rooms, live, redis, now>>

\* the connection c is bound to the host of session s
HostConnection(c, s) ==
  \E p \in DOMAIN participants :
    /\ participants[p].socketId = c
    /\ participants[p].sessionId = s
    /\ participants[p].isHost

\* C32: start_presentation, end_presentation and navigate_presentation store
\* nothing: the durable state, the rooms and the transient keys are after every
\* step of these commands what they were before, so nothing a later join_session
\* reads carries the presentation; and a navigate_presentation of the host with an
\* index of 0 or more is broadcast to the room with that index, whatever commands
\* came before it.
C32_PresentationStoresNothing ==
  [][\A h \in Handlers :
       /\ \A c \in RoomSockets, s \in RoomSessionIds :
            /\ StartPresentation(h, c, s) => NothingStored
            /\ EndPresentation(h, c, s) => NothingStored
            /\ \A i \in RoomItemIndexes :
                 NavigatePresentation(h, c, s, i) =>
                   /\ NothingStored
                   /\ (HostConnection(c, s) /\ i >= 0) =>
                        /\ BroadcastTo("presentation_navigate", s)
                        /\ out'[1].n = i
       /\ (InFlight(h) /\ hs[h].pc = "fetchSockets" /\ Acts(h)) => NothingStored]_vars

\* the first command of the behaviour is a navigate_presentation with index 1: it
\* is broadcast to both connections of the room although nothing was started
C32_NavigatedWithoutStart ==
  /\ cmds = 1
  /\ Len(out) = 1
  /\ out[1].ev = "presentation_navigate"
  /\ out[1].n = 1
  /\ Receivers(out[1], rooms) = {"c1", "c2"}

(***************************************************************************)
(* Claims about a disconnect that overlaps a join (SpecPresence).          *)
(***************************************************************************)
\* C33: the disconnect of a connection never unbinds a participant who has
\* meanwhile been bound to another connection by join_session: the step in which
\* the disconnect handler of connection C clears a binding and sends
\* participant_left finds the participant bound to C.
C33_DisconnectSparesNewBinding ==
  [][\A h \in Handlers :
       (InFlight(h) /\ hs[h].pc = "unbind" /\ Acts(h)) =>
         \/ participants[hs[h].participantId].socketId = hs[h].socket
         \/ (participants' = participants /\ out' = <<>>)]_vars

(***************************************************************************)
(* The cross-session specification: cast_vote commands on the persisted    *)
(* group g1 of session s1 whose payload names either session and either    *)
(* the participant p1 of s1 or the participant p3 of s2.                   *)
(***************************************************************************)
CrossParticipantIds == {"p1", "p3"}

NextCross ==
  \/ \E h \in Handlers, c \in VoteSockets, s \in SessionIds, p \in CrossParticipantIds,
        n \in VoteCounts : CastVote(h, c, s, p, PlainTarget("g1"), n)
  \/ \E h \in Handlers : GetExisting(h)
  \/ \E h \in Handlers : Write(h)
  \/ \E h \in Handlers : AggGroup(h)
  \/ \E h \in Handlers : UpdateGroup(h)
  \/ \E h \in Handlers : FindVotes(h)
  \/ \E h \in Handlers : FindParticipants(h)

SpecCross == InitVote /\ [][NextCross]_vars

(***************************************************************************)
(* Claims about the sessions of a vote row (SpecCross).                    *)
(***************************************************************************)

\* C34: the participant, the group and the session recorded on every vote
\* row belong to one session, so a cast_vote that states a session other
\* than the participant's, or targets a group of another session, records
\* no vote.
C34_VoteRowWithinOneSession ==
  \A k \in DOMAIN votes :
    /\ BelongsTo(k[1], votes[k].sessionId)
    /\ k[2] \in DOMAIN groups
    /\ groups[k[2]].sessionId = votes[k].sessionId

(***************************************************************************)
(* The guest specification: c1 has joined session s1 as p1, and every      *)
(* command arrives on c2, a live connection that has joined no session.    *)
(***************************************************************************)
NextGuest ==
  \/ \E h \in Handlers, s \in VoteSessionIds, p \in MatParticipantIds :
        TypingStart(h, "c2", s, p)
  \/ \E h \in Handlers, s \in VoteSessionIds, p \in MatParticipantIds, t \in RoomContents :
        AddResponse(h, "c2", s, p, t)
  \/ \E h \in Handlers, s \in VoteSessionIds : CreateConnection(h, "c2", s, "r1", "r2")
  \/ \E h \in Handlers : FindResponses(h)
  \/ \E h \in Handlers : InsertConnection(h)
  \/ \E h \in Handlers, s \in VoteSessionIds, p \in MatParticipantIds, n \in MatCounts :
        CastVote(h, "c2", s, p, PlainTarget("g1"), n)
  \/ \E h \in Handlers : GetExisting(h)
  \/ \E h \in Handlers : Write(h)
  \/ \E h \in Handlers : AggGroup(h)
  \/ \E h \in Handlers : UpdateGroup(h)
  \/ \E h \in Handlers : FindVotes(h)
  \/ \E h \in Handlers : FindParticipants(h)

SpecGuest == InitVote /\ [][NextGuest]_vars

(***************************************************************************)
(* Claims about commands of a connection that has not joined (SpecGuest).  *)
(***************************************************************************)

\* the connection c is in the room of session s as one of its participants
JoinedAs(c, s) ==
  /\ <<c, s>> \in rooms
  /\ \E p \in BoundTo(participants, c) : participants[p].sessionId = s

\* the step is one of a command that arrived on connection c
StepOf(c) ==
  \/ \E h \in Handlers : Acts(h) /\ hs[h].socket = c
  \/ \E h \in Handlers : ~InFlight(h) /\ InFlight(h)' /\ hs'[h].socket = c
  \/ \E i \in 1..Len(out') : out'[i].from = c

\* the rows of a table that the session owns
RowsOf(tbl, s) == [k \in {x \in DOMAIN tbl : tbl[x].sessionId = s} |-> tbl[k]]

\* C35: a command that arrives on a connection which has not joined
\* session S as one of its participants changes no response, connection,
\* group or vote of S and delivers no notification to the room of S.
C35_UnjoinedConnectionChangesNothing ==
  [][\A c \in ConnIds, s \in SessionIds :
       (StepOf(c) /\ ~JoinedAs(c, s)) =>
         /\ RowsOf(responses, s)' = RowsOf(responses, s)
         /\ RowsOf(connections, s)' = RowsOf(connections, s)
         /\ RowsOf(groups, s)' = RowsOf(groups, s)
         /\ RowsOf(votes, s)' = RowsOf(votes, s)
         /\ \A i \in 1..Len(out') :
              out'[i].scope \in {"room", "others"} => out'[i].to # s]_vars

(***************************************************************************)
(* Claims about the host reference of a session (SpecPart).                *)
(***************************************************************************)

\* C36: when no request is in flight and the session has a participant with
\* the host flag, the session's hostId designates such a participant, also
\* after the host was removed and another participant was promoted.
C36_HostIdDesignatesHost ==
  Quiescent =>
    \A s \in DOMAIN sessions :
      Hosts(participants, s) # {} => sessions[s].hostId \in Hosts(participants, s)

(***************************************************************************)
(* Claims about the last phase_changed of a session (SpecPhase).           *)
(***************************************************************************)

\* a change_phase of session s is being handled
ChangingPhase(s) ==
  \E h \in Handlers : hs[h].pc = "updateSession" /\ hs[h].sessionId = s

\* the phase_changed notifications of the last step for the room of s
PhaseChanged(ms, s) ==
  {i \in 1..Len(ms) : ms[i].ev = "phase_changed" /\ ms[i].to = s}

\* C37: while no change_phase of the session is being handled and no later
\* phase_changed is broadcast, the phase and end time carried by the last
\* phase_changed for the room are the persisted phase and end time of the
\* session.
C37_LastPhaseChangedIsPersisted ==
  [][\A s \in DOMAIN sessions :
       \A i \in PhaseChanged(out, s) :
         (~ChangingPhase(s) /\ ~ChangingPhase(s)' /\ PhaseChanged(out', s) = {}) =>
            /\ s \in DOMAIN sessions'
            /\ sessions'[s].currentPhase = out[i].id
            /\ sessions'[s].timerEndTime = out[i].data]_vars

(***************************************************************************)
(* Claims about the size of a session (SpecPart).                          *)
(***************************************************************************)

\* C38: a session never has more than 15 participants, also when several
\* joins to a session with 14 participants are handled concurrently.
C38_AtMostFifteenParticipants ==
  \A s \in DOMAIN sessions :
    Cardinality(InSession(participants, s)) <= MaxParticipants

(***************************************************************************)
(* Claims about a connection of a response with itself (SpecBoard).        *)
(***************************************************************************)

\* the command of the frame names one response as both endpoints
SelfPair(fr) ==
  /\ "fromResponseId" \in DOMAIN fr
  /\ fr.op = "create_connection"
  /\ fr.fromResponseId = fr.toResponseId

\* C39: no persisted connection joins a response to itself; a
\* create_connection whose fromResponseId equals its toResponseId persists
\* nothing in any of its steps and ends with an error to its origin.
C39_NoSelfConnection ==
  [][/\ \A k \in DOMAIN connections' :
          connections'[k].fromResponseId # connections'[k].toResponseId
     /\ \A h \in Handlers :
          /\ (hs'[h] # hs[h] /\ SelfPair(hs'[h])) => NothingCreated
          /\ (Acts(h) /\ SelfPair(hs[h])) =>
               (NothingCreated /\ OnlyErrorTo(hs[h].socket) /\ hs'[h] = Idle)]_vars

\* a create_connection of r1 with itself, an existing response of the stated
\* session, is being handled while the connection of r1 and r2 is persisted
C39_SelfPairInFlight ==
  /\ \E h \in Handlers :
       /\ SelfPair(hs[h])
       /\ hs[h].pc = "findResponses"
       /\ hs[h].fromResponseId = "r1"
       /\ ResponseOf("r1", hs[h].sessionId)
  /\ Connected("s1", "r1", "r2")

====
